---- MODULE Spec2Model ----
(***************************************************************************)
(* Room-scoped collaborative session coordinator (src/server.ts) together  *)
(* with the parts of the browser client (App, DrawingCanvas, useSocket)    *)
(* that drive it.                                                          *)
(*                                                                         *)
(* The coordinator is a socket.io server.  Each socket.on handler is one   *)
(* action when it contains no await, and one action per await-separated    *)
(* step when it is async: the continuation of a suspended handler is kept  *)
(* in `handlers`, and any other handler may run between two steps.         *)
(* Messages sent to a client wait in that client's `inbox` (one ordered    *)
(* connection per socket) until the client's listener consumes them.       *)
(***************************************************************************)
EXTENDS Integers, Sequences, FiniteSets, TLC

\* ------------------------------------------------------------------ bounds
MaxSockets == 2      \* connected sockets
MaxClock == 1        \* wall-clock readings 0..MaxClock
MaxEvents == 3       \* DRAW_ACTIONs accepted in one run
MaxAsyncEvents == 2  \* DRAW_ACTIONs accepted in one run of overlapping handlers
MaxHandlers == 2     \* async handlers suspended at an await at the same time
MaxInbox == 2        \* messages waiting for one client
MaxTimers == 1       \* setTimeout callbacks pending in one client
MaxDuels == 2        \* BATTLE_START_TRIGGERs accepted in one run
MaxVotes == 2        \* DROP_PINs accepted in one run
MaxBallotedVotes == 1  \* DROP_PINs accepted in one run in which ballots are cast
MaxDay == 2          \* days of a trip

\* ------------------------------------------------------------- value sets
Sockets == 1..MaxSockets
Rooms == {"r1", "r2"}
Users == {"uA", "uB"}
\* What a stroke of DrawingCanvas.handleMouseMove carries: the first client
\* draws with the pencil, the second with the eraser.
StrokeOf(s) == IF s = 1 THEN [type |-> "line", payload |-> "pts1"]
               ELSE [type |-> "erase", payload |-> "pts2"]
Choices == {"ROCK", "PAPER", "SCISSORS"}
Days == 1..MaxDay
TimeSlots == {"AM"}
\* expiresAt of a vote: Date.now() + 15000
VoteWindow == 15000
None == "none"
Nicknames == {"n1", "n2"}
AvatarUrls == {"a1"}
Centers == {"c1", "c2"}
PinRows == {"p1", "p2"}      \* ids of the rows of table pins
PinIds == PinRows \cup {"p3"}  \* pin ids a message may name
\* `trip_${Date.now()}`: the id of a trip created at time now, as the
\* sequence of its characters.
TripIdAt(now) == <<"t", ToString(now)>>
TripIds == {TripIdAt(now) : now \in 0..MaxClock}
Titles == {"title"}

\* The pixels a stroke covers: the eraser of the second client passes over
\* part of the line of the first.
Pixels == {"x1", "x2"}
PointsOf(payload) == IF payload = "pts1" THEN {"x1", "x2"} ELSE {"x2"}
\* ctx.clearRect(0, 0, width, height): no pixel holds ink.
ClearRect == [x \in Pixels |-> FALSE]
\* React state null: no duel modal, no vote modal.
NoBattle == [pinId |-> None, opponent |-> None]
NoVote == [pinId |-> None, targetDay |-> 0, voteId |-> None]
\* No UPDATE_PROFILE has been received for a user id.
NoProfile == [nickname |-> None, avatarUrl |-> None]
\* `last` after any other step.
Step == [op |-> "step", roomId |-> None]
\* No run of undo requests is being followed.
NoRun == [roomId |-> None, base |-> <<>>, run |-> <<>>]

\* The room a client is given: useSocket(roomId) sends join_room(roomId) when
\* its socket connects.
RoomOf(s) == IF s <= 2 THEN "r1" ELSE "r2"

\* The userId a client generates for itself (App: useRef(`user_...`)).
UserOf(s) == IF s = 1 THEN "uA" ELSE "uB"

\* JSON.stringify(payload): the text stored in canvas_events.payload.
JsonStringify(p) == <<"json", p>>

VARIABLES
    pgPool,         \* a PostgreSQL pool is in use (DATABASE_URL is set)
    unhandled,      \* an async handler has ended with an unhandled rejection
    clock,          \* the wall clock read by CURRENT_TIMESTAMP and Date.now()
    nextId,         \* number of canvas event ids generated so far
    members,        \* socket.io rooms: room id -> set of joined sockets
    trips,          \* table trips
    users,          \* table users
    rooms,          \* table rooms
    lastProfile,    \* history: per user id, the profile of the last
                    \* UPDATE_PROFILE received for it
    canvas_events,  \* table canvas_events, in insertion (rowid) order
    pins,           \* table pins: id -> [assigned_day, time_slot]
    handlers,       \* continuations of async handlers suspended at an await
    inbox,          \* per socket: messages emitted to it, not yet consumed
    remoteActions,  \* per client: DrawingCanvas state remoteActions
    canvas,         \* per client: the pixels of the <canvas> that hold ink
    battle,         \* per client: App state battle
    vote,           \* per client: App state vote
    timers,         \* per client: pending setTimeout callbacks
    undoRun,        \* history: the current run of undo requests handled one by one
    committed,      \* history: the canvas mutations written to the log and not
                    \* yet broadcast, oldest first
    duels,          \* history: BATTLE_START broadcasts made, each with whether a
                    \* BATTLE_RESULT_SYNC for its pin has been broadcast since
    rpsChoices,     \* history: choice last relayed for each participant
    votesOpened,    \* history: START_VOTE broadcasts made, each with the number
                    \* of room members it went to and whether a VOTE_RESULT_SYNC
                    \* for its pin and day has been broadcast since
    ballots,        \* history: ballot last relayed for each vote and participant,
                    \* with whether an earlier ballot of theirs was relayed
    last,           \* history: the request that arrived in the last step, if its
                    \* handler may end without any effect
    connected,      \* useSocket: the shared socket of each client is connected
    joinsPending,   \* join_room messages each client has sent that the server
                    \* has not handled yet
    appTrips,       \* App state trips of each client: the ids of its trip list
    raced           \* history: the CREATE_TRIPs handled while a join_room
                    \* handler for the same room was suspended, with that
                    \* handler's socket

dbVars == <<pgPool, unhandled>>
timeVars == <<clock>>
appVars == <<connected, joinsPending, appTrips, raced>>
roomVars == <<members, trips, users, rooms, lastProfile>>
canvasVars == <<nextId, canvas_events, remoteActions, canvas, undoRun, committed>>
arbClientVars == <<battle, vote, timers>>
arbHistVars == <<duels, rpsChoices, votesOpened, ballots>>

vars == <<pgPool, unhandled, clock, nextId, members, trips, users, rooms,
          lastProfile, canvas_events, pins, handlers, inbox,
          remoteActions, canvas, battle, vote, timers, undoRun, committed, duels,
          rpsChoices, votesOpened, ballots, last, connected, joinsPending,
          appTrips, raced>>

\* ---------------------------------------------------------------- helpers
RemoveAt(s, i) == [j \in 1..(Len(s) - 1) |-> IF j < i THEN s[j] ELSE s[j + 1]]

\* Rows of canvas_events of one room that are not undone, in insertion order.
NonUndone(roomId) ==
    SelectSeq(canvas_events, LAMBDA e: e.room_id = roomId /\ ~e.is_undone)

NonUndoneIds(roomId) ==
    LET rows == NonUndone(roomId) IN [i \in 1..Len(rows) |-> rows[i].id]

\* The committed mutations once the broadcast of one of them is made: its
\* oldest entry leaves the history.
Broadcast(roomId, name, actionId) ==
    LET is(k) == /\ committed[k].roomId = roomId
                 /\ committed[k].name = name
                 /\ committed[k].actionId = actionId
        ks == {k \in 1..Len(committed) : is(k)}
    IN  IF ks = {} THEN committed
        ELSE RemoveAt(committed, CHOOSE k \in ks : \A j \in ks : k <= j)

\* ---------------------------------------------------------------- fan-out
\* A message is sent only while every recipient's connection has room for it.
HasRoom(to) == \A s \in to: Len(inbox[s]) < MaxInbox

\* io.emit(...): every socket that joined any room.
IoEmit(roomId) == UNION {members[r] : r \in Rooms}

\* io.to(roomId).emit(...): every socket that joined roomId.
IoTo(roomId) == members[roomId]

\* socket.to(roomId).emit(...): every socket that joined roomId but the sender.
SocketTo(sock, roomId) == members[roomId] \ {sock}

Emit(box, to, msg) ==
    [s \in Sockets |-> IF s \in to THEN Append(box[s], msg) ELSE box[s]]

\* --------------------------------------------------------------- database
\* Positions, counted from 0, of the ? marks in the text of each statement.
SelectTrips == <<36>>
InsertCanvasEvent == <<89, 92, 95, 98, 101>>
SelectLastEvent == <<62>>
UpdateIsUndone == <<50>>
UpdateAssignedDayMarks == <<31, 44>>
UpdateTimeAndDayMarks == <<28, 46, 59>>
UpdateAiThinkingMarks == <<31, 44>>
SelectPins == <<35>>
InsertTrip == <<47, 50, 53>>

\* sql.replace(/\?/g, (_, i) => `$${i + 1}`): the parameter numbers that
\* replace the ? marks.  The second argument of the replacer is the position
\* of the match in the text.
PgParams(marks) == [k \in 1..Len(marks) |-> marks[k] + 1]

\* query, get, execute: better-sqlite3 binds the k-th value to the k-th ?;
\* PostgreSQL binds it to $k, and rejects a statement that names a parameter
\* beyond the values sent with it.
Runs(marks) ==
    pgPool => \A k \in 1..Len(marks) : PgParams(marks)[k] <= Len(marks)

\* ------------------------------------------------------------------- Init
Init ==
    /\ pgPool \in BOOLEAN
    /\ unhandled = FALSE
    /\ clock = 0
    /\ nextId = 0
    /\ members = [r \in Rooms |-> {}]
    /\ trips = {}
    /\ users = {}
    /\ rooms = {}
    /\ lastProfile = [u \in Users |-> NoProfile]
    /\ canvas_events = <<>>
    /\ pins = [p \in PinRows |-> [assigned_day |-> 0, time_slot |-> None]]
    /\ handlers = <<>>
    /\ inbox = [s \in Sockets |-> <<>>]
    /\ remoteActions = [s \in Sockets |-> <<>>]
    /\ canvas = [s \in Sockets |-> ClearRect]
    /\ battle = [s \in Sockets |-> NoBattle]
    /\ vote = [s \in Sockets |-> NoVote]
    /\ timers = [s \in Sockets |-> <<>>]
    /\ undoRun = NoRun
    /\ committed = <<>>
    /\ duels = <<>>
    /\ rpsChoices = [u \in Users |-> None]
    /\ votesOpened = <<>>
    /\ ballots = {}
    /\ last = Step
    /\ connected = [s \in Sockets |-> FALSE]
    /\ joinsPending = [s \in Sockets |-> 0]
    /\ appTrips = [s \in Sockets |-> <<>>]
    /\ raced = {}

\* The wall clock advances.
Tick ==
    /\ clock < MaxClock
    /\ clock' = clock + 1
    /\ last' = Step
    /\ UNCHANGED <<dbVars, appVars, roomVars, canvasVars, pins, handlers, inbox,
                   arbClientVars, arbHistVars>>

\* ------------------------------------------------------------- join_room
\* socket.join(roomId); the handler then awaits the trips query.
\* SELECT * FROM trips WHERE room_id = ?
TripsOf(roomId) == {t \in trips : t.room_id = roomId}

\* await query(...): better-sqlite3 has read the rows when query returns, and
\* the handler goes on in its next turn; with PostgreSQL the handler waits
\* for the answer of the database first.
AwaitQuery == IF pgPool THEN "query" ELSE "emit"

\* socket.join(roomId), then the call of query.
JoinRoom(sock, roomId) ==
    /\ Len(handlers) < MaxHandlers
    /\ sock \notin members[roomId]
    /\ members' = [members EXCEPT ![roomId] = @ \cup {sock}]
    /\ handlers' = Append(handlers,
                      [op |-> "join_room", pc |-> AwaitQuery, sock |-> sock,
                       roomId |-> roomId, trips |-> TripsOf(roomId)])
    /\ last' = Step
    /\ UNCHANGED <<dbVars, timeVars, appVars, trips, users, rooms, lastProfile, canvasVars,
                   pins, inbox, arbClientVars, arbHistVars>>

\* The awaited query settles: the handler goes on with the rows, or the
\* rejection ends it.
JoinQuery(i) ==
    /\ i \in 1..Len(handlers)
    /\ handlers[i].op = "join_room" /\ handlers[i].pc = "query"
    /\ IF Runs(SelectTrips)
       THEN /\ handlers' = Append(RemoveAt(handlers, i),
                      [op |-> "join_room", pc |-> "emit",
                       sock |-> handlers[i].sock,
                       roomId |-> handlers[i].roomId,
                       trips |-> handlers[i].trips])
            /\ unhandled' = unhandled
       ELSE /\ handlers' = RemoveAt(handlers, i)
            /\ unhandled' = TRUE
    /\ last' = Step
    /\ UNCHANGED <<pgPool, timeVars, appVars, roomVars, canvasVars, pins, inbox, arbClientVars,
                   arbHistVars>>

\* socket.emit("SYNC_TRIPS", trips); io.to(roomId).emit("USER_JOINED", ...)
JoinEmit(i) ==
    /\ i \in 1..Len(handlers)
    /\ handlers[i].op = "join_room" /\ handlers[i].pc = "emit"
    /\ LET h == handlers[i]
           syncTrips == [name |-> "SYNC_TRIPS", trips |-> h.trips]
           userJoined == [name |-> "USER_JOINED", userId |-> h.sock]
           box == [inbox EXCEPT ![h.sock] = Append(@, syncTrips)]
       IN  /\ \A s \in IoTo(h.roomId) \cup {h.sock}: Len(box[s]) < MaxInbox
           /\ inbox' = Emit(box, IoTo(h.roomId), userJoined)
           /\ last' = Step
    /\ handlers' = RemoveAt(handlers, i)
    /\ UNCHANGED <<dbVars, timeVars, appVars, roomVars, canvasVars, pins, arbClientVars,
                   arbHistVars>>

\* ----------------------------------------------------------- DRAW_ACTION
\* `evt_${Date.now()}_${Math.random()...}`: an id no earlier event has.
NewEventId == nextId + 1

\* INSERT INTO canvas_events (id, room_id, user_id, type, payload): created_at
\* and is_undone take their column defaults.
InsertEvent(id, roomId, userId, type, payload) ==
    Append(canvas_events,
           [id |-> id, room_id |-> roomId, user_id |-> userId, type |-> type,
            payload |-> JsonStringify(payload), created_at |-> clock,
            is_undone |-> FALSE])

\* The handler up to the end of its await: an id is generated and the event
\* is inserted, or the statement rejects and the handler ends.
DrawInsert(sock, roomId, userId, stroke) ==
    /\ nextId < MaxEvents
    /\ Len(handlers) < MaxHandlers
    /\ nextId' = NewEventId
    /\ IF Runs(InsertCanvasEvent)
       THEN /\ canvas_events' = InsertEvent(NewEventId, roomId, userId,
                                            stroke.type, stroke.payload)
            /\ handlers' = Append(handlers,
                      [op |-> "DRAW_ACTION", pc |-> "emit", sock |-> sock,
                       roomId |-> roomId, userId |-> userId,
                       type |-> stroke.type, payload |-> stroke.payload,
                       id |-> NewEventId])
            /\ undoRun' = IF handlers = <<>>
                          THEN [roomId |-> roomId,
                                base |-> Append(NonUndoneIds(roomId), NewEventId),
                                run |-> <<>>]
                          ELSE NoRun
            /\ committed' = Append(committed,
                      [roomId |-> roomId, name |-> "SYNC_ACTION",
                       actionId |-> NewEventId])
            /\ unhandled' = unhandled
       ELSE /\ unhandled' = TRUE
            /\ UNCHANGED <<canvas_events, handlers, undoRun, committed>>
    /\ last' = Step
    /\ UNCHANGED <<pgPool, timeVars, appVars, roomVars, pins, inbox, remoteActions, canvas,
                   arbClientVars, arbHistVars>>

SyncAction(h) ==
    [name |-> "SYNC_ACTION", actionId |-> h.id, userId |-> h.userId,
     type |-> h.type, payload |-> h.payload]

\* Who receives SYNC_ACTION: io.to(roomId).
SyncActionTo(sock, roomId) == IoTo(roomId)

\* After the await: io.to(roomId).emit("SYNC_ACTION", ...).
DrawEmit(i) ==
    /\ i \in 1..Len(handlers)
    /\ handlers[i].op = "DRAW_ACTION"
    /\ LET h == handlers[i]
           to == SyncActionTo(h.sock, h.roomId)
       IN  /\ HasRoom(to)
           /\ inbox' = Emit(inbox, to, SyncAction(h))
           /\ committed' = Broadcast(h.roomId, "SYNC_ACTION", h.id)
           /\ last' = Step
    /\ handlers' = RemoveAt(handlers, i)
    /\ UNCHANGED <<dbVars, timeVars, appVars, roomVars, nextId, canvas_events,
                   remoteActions, canvas, undoRun, pins, arbClientVars, arbHistVars>>

\* ---------------------------------------------------------- UNDO_REQUEST
\* SELECT * FROM canvas_events WHERE room_id = ? AND is_undone = 0
\* ORDER BY created_at DESC LIMIT 1: the positions of the rows the query may
\* return.  Rows with equal created_at are ordered as the database pleases.
LastEventChoices(roomId) ==
    LET match == {i \in 1..Len(canvas_events) :
                    /\ canvas_events[i].room_id = roomId
                    /\ ~canvas_events[i].is_undone}
    IN  {i \in match :
           \A j \in match :
              canvas_events[j].created_at <= canvas_events[i].created_at}

\* The handler up to its first await, when the query returns no row:
\* `if (lastEvent)` fails and the handler ends.
UndoNone(roomId) ==
    /\ Runs(SelectLastEvent)
    /\ LastEventChoices(roomId) = {}
    /\ last' = [op |-> "UNDO_REQUEST", roomId |-> roomId]
    /\ UNCHANGED <<dbVars, timeVars, appVars, roomVars, canvasVars, pins, handlers, inbox,
                   arbClientVars, arbHistVars>>

\* The handler up to its first await, when the query returns a row.
UndoSelect(roomId) ==
    /\ Runs(SelectLastEvent)
    /\ Len(handlers) < MaxHandlers
    /\ \E i \in LastEventChoices(roomId) :
         /\ handlers' = Append(handlers,
                           [op |-> "UNDO_REQUEST", pc |-> "update",
                            roomId |-> roomId,
                            lastEvent |-> canvas_events[i].id])
         /\ last' = [op |-> "UNDO_REQUEST", roomId |-> roomId]
    /\ undoRun' = IF handlers = <<>> /\ undoRun.roomId = roomId
                  THEN undoRun ELSE NoRun
    /\ UNCHANGED <<dbVars, timeVars, appVars, roomVars, nextId, canvas_events, remoteActions, canvas,
                   committed, pins, inbox, arbClientVars, arbHistVars>>

\* The handler up to its first await, when the query rejects: the handler
\* ends with the rejection.
UndoReject(roomId) ==
    /\ ~Runs(SelectLastEvent)
    /\ unhandled' = TRUE
    /\ last' = [op |-> "UNDO_REQUEST", roomId |-> roomId]
    /\ UNCHANGED <<pgPool, timeVars, appVars, roomVars, canvasVars, pins, handlers,
                   inbox, arbClientVars, arbHistVars>>

\* UPDATE canvas_events SET is_undone = 1 WHERE id = ?
MarkUndone(id) ==
    [i \in 1..Len(canvas_events) |->
        IF canvas_events[i].id = id
        THEN [canvas_events[i] EXCEPT !.is_undone = TRUE]
        ELSE canvas_events[i]]

UndoUpdate(i) ==
    /\ i \in 1..Len(handlers)
    /\ handlers[i].op = "UNDO_REQUEST" /\ handlers[i].pc = "update"
    /\ IF Runs(UpdateIsUndone)
       THEN /\ canvas_events' = MarkUndone(handlers[i].lastEvent)
            /\ handlers' = Append(RemoveAt(handlers, i),
                                  [handlers[i] EXCEPT !.pc = "emit"])
            /\ undoRun' = IF undoRun = NoRun THEN NoRun
                          ELSE [undoRun EXCEPT
                                  !.run = Append(@, handlers[i].lastEvent)]
            /\ committed' = Append(committed,
                      [roomId |-> handlers[i].roomId, name |-> "UNDO_EXECUTE",
                       actionId |-> handlers[i].lastEvent])
            /\ unhandled' = unhandled
       ELSE /\ handlers' = RemoveAt(handlers, i)
            /\ unhandled' = TRUE
            /\ UNCHANGED <<canvas_events, undoRun, committed>>
    /\ last' = Step
    /\ UNCHANGED <<pgPool, timeVars, appVars, roomVars, nextId, remoteActions, canvas, pins,
                   inbox, arbClientVars, arbHistVars>>

\* io.to(roomId).emit("UNDO_EXECUTE", { actionId: lastEvent.id })
UndoEmit(i) ==
    /\ i \in 1..Len(handlers)
    /\ handlers[i].op = "UNDO_REQUEST" /\ handlers[i].pc = "emit"
    /\ LET h == handlers[i]
       IN  /\ HasRoom(IoTo(h.roomId))
           /\ inbox' = Emit(inbox, IoTo(h.roomId),
                            [name |-> "UNDO_EXECUTE", actionId |-> h.lastEvent])
           /\ committed' = Broadcast(h.roomId, "UNDO_EXECUTE", h.lastEvent)
           /\ last' = Step
    /\ handlers' = RemoveAt(handlers, i)
    /\ UNCHANGED <<dbVars, timeVars, appVars, roomVars, nextId, canvas_events,
                   remoteActions, canvas, undoRun, pins, arbClientVars, arbHistVars>>

\* ------------------------------------------------------------- the client
\* DrawingCanvas: on('SYNC_ACTION') appends the action to remoteActions.
OnSyncAction(actions, m) ==
    Append(actions, [actionId |-> m.actionId, userId |-> m.userId,
                     type |-> m.type, payload |-> m.payload])

\* DrawingCanvas: on('UNDO_EXECUTE') filters the action out of remoteActions.
OnUndoExecute(actions, m) ==
    SelectSeq(actions, LAMBDA a: a.actionId # m.actionId)

\* DrawingCanvas.drawAction: a line inks its pixels (source-over), an erase
\* clears them (destination-out), any other type draws nothing.
DrawAction(cv, action) ==
    IF action.type = "line"
    THEN [x \in Pixels |-> cv[x] \/ x \in PointsOf(action.payload)]
    ELSE IF action.type = "erase"
    THEN [x \in Pixels |-> cv[x] /\ x \notin PointsOf(action.payload)]
    ELSE cv

\* actions.forEach(drawAction) on a canvas.
RECURSIVE ForEachDrawAction(_, _)
ForEachDrawAction(cv, actions) ==
    IF actions = <<>> THEN cv
    ELSE ForEachDrawAction(DrawAction(cv, Head(actions)), Tail(actions))

\* redraw without its clearRect: the actions are drawn over what is there.
RedrawOver(cv, actions) == ForEachDrawAction(cv, actions)

\* DrawingCanvas redraw: ctx.clearRect(...); remoteActions.forEach(drawAction).
Redraw(cv, actions) == ForEachDrawAction(ClearRect, actions)

\* App: on('BATTLE_START') shows the modal to the two named participants.
OnBattleStart(s, m) ==
    IF m.userA = UserOf(s) THEN [pinId |-> m.pinId, opponent |-> m.userB]
    ELSE IF m.userB = UserOf(s) THEN [pinId |-> m.pinId, opponent |-> m.userA]
    ELSE battle[s]

\* App: on('START_VOTE') shows the vote modal.
OnStartVote(m) ==
    [pinId |-> m.pinId, targetDay |-> m.targetDay, voteId |-> m.voteId]

\* The rows of a result, in the order the database returns them.
RECURSIVE RowIds(_)
RowIds(rows) ==
    IF rows = {} THEN <<>>
    ELSE LET r == CHOOSE x \in rows : \A y \in rows : x.rowid <= y.rowid
         IN  <<r.id>> \o RowIds(rows \ {r})

\* App: on('SYNC_TRIPS', data => setTrips(data))
OnSyncTrips(m) == RowIds(m.trips)

\* App: on('TRIP_CREATED', trip => setTrips(prev => [...prev, trip]))
OnTripCreated(list, m) == Append(list, m.id)

\* The client consumes the oldest message of its connection and runs the
\* listener registered for its name; a name without listener is dropped.
\* A listener that sets remoteActions makes the effect of DrawingCanvas run
\* again, which calls resize and with it redraw.
Deliver(s) ==
    /\ inbox[s] # <<>>
    /\ LET m == Head(inbox[s])
       IN  /\ remoteActions' =
                 [remoteActions EXCEPT ![s] =
                    IF m.name = "SYNC_ACTION" THEN OnSyncAction(@, m)
                    ELSE IF m.name = "UNDO_EXECUTE" THEN OnUndoExecute(@, m)
                    ELSE @]
           /\ canvas' =
                 [canvas EXCEPT ![s] =
                    IF m.name = "SYNC_ACTION"
                    THEN Redraw(DrawAction(@, m), remoteActions'[s])
                    ELSE IF m.name = "UNDO_EXECUTE"
                    THEN Redraw(ForEachDrawAction(ClearRect, remoteActions'[s]),
                                remoteActions'[s])
                    ELSE @]
           /\ battle' = [battle EXCEPT ![s] =
                           IF m.name = "BATTLE_START" THEN OnBattleStart(s, m)
                           ELSE @]
           /\ vote' = [vote EXCEPT ![s] =
                         IF m.name = "START_VOTE" THEN OnStartVote(m)
                         ELSE IF m.name = "VOTE_RESULT_SYNC" THEN NoVote
                         ELSE @]
           /\ appTrips' = [appTrips EXCEPT ![s] =
                             IF m.name = "SYNC_TRIPS" THEN OnSyncTrips(m)
                             ELSE IF m.name = "TRIP_CREATED"
                             THEN OnTripCreated(@, m)
                             ELSE @]
           /\ last' = Step
    /\ inbox' = [inbox EXCEPT ![s] = Tail(@)]
    /\ UNCHANGED <<dbVars, timeVars, connected, joinsPending, raced, roomVars, nextId, canvas_events, undoRun,
                   committed, pins, handlers, timers, arbHistVars>>

\* ------------------------------------------------------ the canvas system
\* A handler suspended at an await resumes.
Resume ==
    \/ \E i \in 1..MaxHandlers : JoinQuery(i)
    \/ \E i \in 1..MaxHandlers : JoinEmit(i)
    \/ \E i \in 1..MaxHandlers : DrawEmit(i)
    \/ \E i \in 1..MaxHandlers : UndoUpdate(i)
    \/ \E i \in 1..MaxHandlers : UndoEmit(i)

\* A request arrives and its handler runs up to its first await.
\* useSocket: on 'connect' the client joins its room.
JoinRequest == \E s \in Sockets : JoinRoom(s, RoomOf(s))

\* DrawingCanvas.handleMouseMove of a client that has joined its room:
\* emit('DRAW_ACTION', ...), to which the emit of useSocket adds the roomId.
DrawRequest ==
    \E s \in Sockets :
        /\ s \in members[RoomOf(s)]
        /\ DrawInsert(s, RoomOf(s), UserOf(s), StrokeOf(s))

UndoRequest ==
    \/ \E r \in Rooms : UndoNone(r)
    \/ \E r \in Rooms : UndoSelect(r)
    \/ \E r \in Rooms : UndoReject(r)

\* Requests handled one at a time: a handler ends before anything else
\* happens, as with the synchronous database calls of the first server.
NextSync ==
    \/ handlers = <<>> /\ Tick
    \/ handlers = <<>> /\ JoinRequest
    \/ handlers = <<>> /\ DrawRequest
    \/ handlers = <<>> /\ UndoRequest
    \/ Resume
    \/ handlers = <<>> /\ \E s \in Sockets : Deliver(s)

SpecSync == Init /\ [][NextSync]_vars

\* The asynchronous handlers of src/server.ts: between two awaits of one
\* handler, other handlers run and clients consume messages.
NextCanvas ==
    \/ Tick
    \/ JoinRequest
    \/ nextId < MaxAsyncEvents /\ DrawRequest
    \/ UndoRequest
    \/ Resume
    \/ \E s \in Sockets : Deliver(s)

SpecCanvas == Init /\ [][NextCanvas]_vars

\* ------------------------------------------------------- the client canvas
\* window 'resize': resize calls redraw.
Resize(s) ==
    /\ canvas' = [canvas EXCEPT ![s] = Redraw(@, remoteActions[s])]
    /\ last' = [op |-> "resize", roomId |-> RoomOf(s), sock |-> s]
    /\ UNCHANGED <<dbVars, timeVars, appVars, roomVars, nextId, canvas_events,
                   remoteActions, undoRun, committed, pins, handlers, inbox,
                   arbClientVars, arbHistVars>>

\* DrawingCanvas.handleMouseMove, before its emit: the stroke is drawn on the
\* client's own canvas at once.
HandleMouseMove(s) ==
    /\ canvas' = [canvas EXCEPT ![s] = DrawAction(@, StrokeOf(s))]
    /\ last' = Step
    /\ UNCHANGED <<dbVars, timeVars, appVars, roomVars, nextId, canvas_events,
                   remoteActions, undoRun, committed, pins, handlers, inbox,
                   arbClientVars, arbHistVars>>

\* Clients draw, undo and resize their windows; requests are handled one at
\* a time.
NextRedraw ==
    \/ handlers = <<>> /\ JoinRequest
    \/ \E s \in Sockets : HandleMouseMove(s)
    \/ handlers = <<>> /\ DrawRequest
    \/ handlers = <<>> /\ UndoRequest
    \/ Resume
    \/ \E s \in Sockets : Deliver(s)
    \/ \E s \in Sockets : Resize(s)

SpecRedraw == Init /\ [][NextRedraw]_vars

\* ------------------------------------------------- requests made by the App
\* A value that travels in a message: a string, or an object with its own
\* properties.  A string that the App spreads is held as the sequence of its
\* characters.
Str(s) == [type |-> "string", value |-> s]
Obj(o) == [type |-> "object", value |-> o]

\* { ...data }: the own enumerable properties of data.  Those of an object
\* are its properties; those of a string are its characters under the keys
\* "0", "1", ...
OwnProps(data) ==
    IF data.type = "object"
    THEN data.value
    ELSE [k \in {ToString(i - 1) : i \in 1..Len(data.value)} |->
             data.value[CHOOSE i \in 1..Len(data.value) : ToString(i - 1) = k]]

\* useSocket.emit: socket.emit(event, { ...data, roomId }).  The message is
\* an object with the own properties of data and the property roomId.
UseSocketEmit(data, roomId) ==
    LET props == OwnProps(data)
    IN  Obj([k \in DOMAIN props \cup {"roomId"} |->
                IF k = "roomId" THEN roomId ELSE props[k]])

\* db.prepare(sql).get(...params) and .all(...params) with one parameter: a
\* string is bound to the ? of the statement; an object is taken as named
\* parameters and leaves the ? without a value, which throws.
Binds(param) == param.type = "string"

\* socket.on("UNDO_REQUEST", async (roomId) => ...) when the message cannot
\* be bound to the statement: get() throws and the handler ends.
UndoThrows(message) ==
    /\ Runs(SelectLastEvent)
    /\ ~Binds(message)
    /\ unhandled' = TRUE
    /\ last' = [op |-> "UNDO_REQUEST", roomId |-> message]
    /\ UNCHANGED <<pgPool, timeVars, appVars, roomVars, canvasVars, pins, handlers,
                   inbox, arbClientVars, arbHistVars>>

\* The handler of UNDO_REQUEST for any message, up to its first await.
OnUndoRequest(message) ==
    IF Binds(message)
    THEN \/ UndoNone(message.value)
         \/ UndoSelect(message.value)
         \/ UndoReject(message.value)
    ELSE \/ UndoReject(message)
         \/ UndoThrows(message)

\* App: the undo button, onClick={() => emit('UNDO_REQUEST', { roomId })}.
UndoButton(s) ==
    OnUndoRequest(UseSocketEmit(Obj([roomId |-> RoomOf(s)]), RoomOf(s)))

\* Column trip_id of the rows of table pins; no statement writes it.
PinTripId(p) == IF p = "p1" THEN TripIdAt(0) ELSE TripIdAt(1)

\* SELECT * FROM pins WHERE trip_id = ?
PinsOfTrip(tripId) == {p \in PinRows : PinTripId(p) = tripId}

\* socket.on("GET_PINS", async (tripId) => ...) up to its await: the query
\* returns the rows, or it rejects or throws and the handler ends.
OnGetPins(sock, message) ==
    /\ IF Runs(SelectPins) /\ Binds(message)
       THEN /\ Len(handlers) < MaxHandlers
            /\ handlers' = Append(handlers,
                              [op |-> "GET_PINS", pc |-> "emit", sock |-> sock,
                               pins |-> PinsOfTrip(message.value)])
            /\ unhandled' = unhandled
       ELSE /\ handlers' = handlers
            /\ unhandled' = TRUE
    /\ last' = [op |-> "GET_PINS", roomId |-> None, sock |-> sock,
                tripId |-> message]
    /\ UNCHANGED <<pgPool, timeVars, appVars, roomVars, canvasVars, pins, inbox,
                   arbClientVars, arbHistVars>>

\* socket.emit("SYNC_PINS", pins)
GetPinsEmit(i) ==
    /\ i \in 1..Len(handlers)
    /\ handlers[i].op = "GET_PINS" /\ handlers[i].pc = "emit"
    /\ Len(inbox[handlers[i].sock]) < MaxInbox
    /\ inbox' = Emit(inbox, {handlers[i].sock},
                     [name |-> "SYNC_PINS", pins |-> handlers[i].pins])
    /\ handlers' = RemoveAt(handlers, i)
    /\ last' = Step
    /\ UNCHANGED <<dbVars, timeVars, appVars, roomVars, canvasVars, pins, arbClientVars,
                   arbHistVars>>

\* App: useEffect(() => { if (currentTripId) emit('GET_PINS', currentTripId) })
\* when the current trip has become tripId.
GetPinsEffect(s, tripId) ==
    OnGetPins(s, UseSocketEmit(Str(tripId), RoomOf(s)))

\* Clients that have joined draw, press the undo button and select trips;
\* requests are
\* handled one at a time.  No handler of UNDO_REQUEST or GET_PINS gets past
\* its first statement here, so their later steps are not among the steps.
NextUi ==
    \/ handlers = <<>> /\ Tick
    \/ handlers = <<>> /\ JoinRequest
    \/ handlers = <<>> /\ DrawRequest
    \/ handlers = <<>> /\ \E s \in Sockets : s \in members[RoomOf(s)] /\ UndoButton(s)
    \/ handlers = <<>> /\ \E s \in Sockets, tripId \in TripIds :
                            s \in members[RoomOf(s)] /\ GetPinsEffect(s, tripId)
    \/ \E i \in 1..MaxHandlers : JoinQuery(i)
    \/ \E i \in 1..MaxHandlers : JoinEmit(i)
    \/ \E i \in 1..MaxHandlers : DrawEmit(i)
    \/ handlers = <<>> /\ \E s \in Sockets : Deliver(s)

SpecUi == Init /\ [][NextUi]_vars

\* ------------------------------------------------------------ the event loop
ResumeAt(i) ==
    \/ JoinQuery(i)
    \/ JoinEmit(i)
    \/ DrawEmit(i)
    \/ UndoUpdate(i)
    \/ UndoEmit(i)

ResumeInAnyOrder == \E i \in 1..MaxHandlers : ResumeAt(i)

\* query, get, execute: db.prepare(sql).run/get/all is synchronous, so the
\* promise a handler awaits is already settled and its continuation is a
\* microtask: the handler suspended first resumes first.  pgPool.query
\* settles when the database answers, in any order.
Microtask ==
    IF pgPool THEN \E i \in 1..MaxHandlers : ResumeAt(i) ELSE ResumeAt(1)

\* Requests arrive at any time; continuations run as the event loop
\* schedules them.
NextLoop ==
    \/ Tick
    \/ JoinRequest
    \/ nextId < MaxAsyncEvents /\ DrawRequest
    \/ UndoRequest
    \/ Microtask
    \/ \E s \in Sockets : Deliver(s)

SpecLoop == Init /\ [][NextLoop]_vars

\* ------------------------------------------------------------- the duel
\* The choice of the first parameter beats the choice of the second.
Beats(a, b) ==
    \/ a = "ROCK" /\ b = "SCISSORS"
    \/ a = "SCISSORS" /\ b = "PAPER"
    \/ a = "PAPER" /\ b = "ROCK"

\* socket.on("BATTLE_START_TRIGGER"): the challenge is sent to the room.
BattleStartTrigger(roomId, pinId, userA, userB) ==
    /\ Len(duels) < MaxDuels
    /\ HasRoom(IoTo(roomId))
    /\ inbox' = Emit(inbox, IoTo(roomId),
                     [name |-> "BATTLE_START", pinId |-> pinId,
                      userA |-> userA, userB |-> userB])
    /\ duels' = Append(duels,
                       [pinId |-> pinId, userA |-> userA, userB |-> userB,
                        resolved |-> FALSE])
    /\ rpsChoices' = [u \in Users |->
                        IF u \in {userA, userB} THEN None ELSE rpsChoices[u]]
    /\ last' = Step
    /\ UNCHANGED <<dbVars, timeVars, appVars, roomVars, canvasVars, pins, handlers,
                   arbClientVars, votesOpened, ballots>>

\* socket.on("RPS_CHOICE"): the choice is relayed to the room.
RpsChoice(roomId, battleId, userId, choice) ==
    /\ HasRoom(IoTo(roomId))
    /\ inbox' = Emit(inbox, IoTo(roomId),
                     [name |-> "RPS_CHOICE_RECEIVED", battleId |-> battleId,
                      userId |-> userId, choice |-> choice])
    /\ rpsChoices' = [rpsChoices EXCEPT ![userId] = choice]
    /\ last' = Step
    /\ UNCHANGED <<dbVars, timeVars, appVars, roomVars, canvasVars, pins, handlers, duels,
                   votesOpened, ballots>>

\* socket.on("BATTLE_RESULT"): the result a client sends is relayed to the room.
BattleResult(roomId, winnerId, pinId) ==
    /\ HasRoom(IoTo(roomId))
    /\ inbox' = Emit(inbox, IoTo(roomId),
                     [name |-> "BATTLE_RESULT_SYNC", winnerId |-> winnerId,
                      pinId |-> pinId])
    /\ duels' = [k \in 1..Len(duels) |->
                    IF duels[k].pinId = pinId
                    THEN [duels[k] EXCEPT !.resolved = TRUE] ELSE duels[k]]
    /\ last' = Step
    /\ UNCHANGED <<dbVars, timeVars, appVars, roomVars, canvasVars, pins, handlers,
                   rpsChoices, votesOpened, ballots>>

\* App.handleRPS: the client sends its choice, closes the modal, and will
\* send BATTLE_RESULT naming itself the winner two seconds later.
HandleRPS(s, choice) ==
    /\ battle[s] # NoBattle
    /\ Len(timers[s]) < MaxTimers
    /\ RpsChoice(RoomOf(s), "b1", UserOf(s), choice)
    /\ battle' = [battle EXCEPT ![s] = NoBattle]
    /\ timers' = [timers EXCEPT ![s] =
                    Append(@, [event |-> "BATTLE_RESULT",
                               winnerId |-> UserOf(s),
                               pinId |-> battle[s].pinId])]
    /\ vote' = vote

\* The two-second timer of handleRPS fires.
BattleResultTimer(s) ==
    /\ timers[s] # <<>>
    /\ Head(timers[s]).event = "BATTLE_RESULT"
    /\ BattleResult(RoomOf(s), Head(timers[s]).winnerId, Head(timers[s]).pinId)
    /\ timers' = [timers EXCEPT ![s] = Tail(@)]
    /\ UNCHANGED <<battle, vote>>

DuelUsers == {<<a, b>> \in Users \X Users : a # b}

\* The pins two participants drag at the same time.
ContestedPins == {"p1"}

NextDuel ==
    \/ JoinRequest
    \/ \E i \in 1..MaxHandlers : JoinQuery(i)
    \/ \E i \in 1..MaxHandlers : JoinEmit(i)
    \/ \E s \in Sockets, p \in ContestedPins, ab \in DuelUsers :
          /\ s \in members[RoomOf(s)]
          /\ BattleStartTrigger(RoomOf(s), p, ab[1], ab[2])
    \/ \E s \in Sockets, c \in Choices : HandleRPS(s, c)
    \/ \E s \in Sockets : BattleResultTimer(s)
    \/ \E s \in Sockets : Deliver(s)

SpecDuel == Init /\ [][NextDuel]_vars

\* ------------------------------------------------------------- the vote
\* socket.on("DROP_PIN"): a vote is announced to the room.
DropPin(roomId, pinId, targetDay, userId) ==
    /\ Len(votesOpened) < MaxVotes
    /\ HasRoom(IoTo(roomId))
    /\ inbox' = Emit(inbox, IoTo(roomId),
                     [name |-> "START_VOTE", voteId |-> clock, pinId |-> pinId,
                      targetDay |-> targetDay, initiatorId |-> userId,
                      expiresAt |-> clock + VoteWindow])
    /\ votesOpened' = Append(votesOpened,
                             [voteId |-> clock, pinId |-> pinId,
                              targetDay |-> targetDay, finalized |-> FALSE,
                              quorum |-> Cardinality(IoTo(roomId))])
    /\ last' = Step
    /\ UNCHANGED <<dbVars, timeVars, appVars, roomVars, canvasVars, pins, handlers,
                   arbClientVars, duels, rpsChoices, ballots>>

\* socket.on("SUBMIT_VOTE"): the ballot is relayed to the room.
SubmitVote(roomId, voteId, userId, isAgree) ==
    /\ HasRoom(IoTo(roomId))
    /\ inbox' = Emit(inbox, IoTo(roomId),
                     [name |-> "VOTE_RECEIVED", voteId |-> voteId,
                      userId |-> userId, isAgree |-> isAgree])
    /\ ballots' = {b \in ballots : ~(b.voteId = voteId /\ b.userId = userId)}
                  \cup {[voteId |-> voteId, userId |-> userId,
                         isAgree |-> isAgree,
                         again |-> \E b \in ballots :
                                     b.voteId = voteId /\ b.userId = userId]}
    /\ last' = Step
    /\ UNCHANGED <<dbVars, timeVars, appVars, roomVars, canvasVars, pins, handlers, duels,
                   rpsChoices, votesOpened>>

\* History: the votes for the pin and day of a result are finalized by it.
Finalize(pinId, targetDay) ==
    [k \in 1..Len(votesOpened) |->
        IF votesOpened[k].pinId = pinId /\ votesOpened[k].targetDay = targetDay
        THEN [votesOpened[k] EXCEPT !.finalized = TRUE] ELSE votesOpened[k]]

VoteResultSync(success, pinId, targetDay) ==
    [name |-> "VOTE_RESULT_SYNC", success |-> success, pinId |-> pinId,
     targetDay |-> targetDay]

\* UPDATE pins SET assigned_day = ? WHERE id = ?
UpdateAssignedDay(pinId, targetDay) ==
    [p \in DOMAIN pins |->
        IF p = pinId THEN [pins[p] EXCEPT !.assigned_day = targetDay]
        ELSE pins[p]]

\* socket.on("VOTE_FINAL_RESULT") up to the end of its await: with success
\* the pin is updated, or the statement rejects and the handler ends; without
\* success the result is sent at once.
VoteFinalResult(roomId, success, pinId, targetDay) ==
    /\ IF success
       THEN /\ Len(handlers) < MaxHandlers
            /\ IF Runs(UpdateAssignedDayMarks)
               THEN /\ pins' = UpdateAssignedDay(pinId, targetDay)
                    /\ handlers' = Append(handlers,
                              [op |-> "VOTE_FINAL_RESULT", pc |-> "emit",
                               roomId |-> roomId, success |-> success,
                               pinId |-> pinId, targetDay |-> targetDay])
                    /\ unhandled' = unhandled
               ELSE /\ unhandled' = TRUE
                    /\ UNCHANGED <<pins, handlers>>
            /\ UNCHANGED <<inbox, votesOpened>>
       ELSE /\ HasRoom(IoTo(roomId))
            /\ inbox' = Emit(inbox, IoTo(roomId),
                             VoteResultSync(success, pinId, targetDay))
            /\ votesOpened' = Finalize(pinId, targetDay)
            /\ UNCHANGED <<pins, handlers, unhandled>>
    /\ last' = [op |-> "VOTE_FINAL_RESULT", roomId |-> roomId,
                success |-> success, pinId |-> pinId, targetDay |-> targetDay]
    /\ UNCHANGED <<pgPool, timeVars, appVars, roomVars, canvasVars, duels, rpsChoices,
                   ballots>>

\* After the await: io.to(roomId).emit("VOTE_RESULT_SYNC", ...).
VoteFinalEmit(i) ==
    /\ i \in 1..Len(handlers)
    /\ handlers[i].op = "VOTE_FINAL_RESULT"
    /\ LET h == handlers[i]
       IN  /\ HasRoom(IoTo(h.roomId))
           /\ inbox' = Emit(inbox, IoTo(h.roomId),
                            VoteResultSync(h.success, h.pinId, h.targetDay))
           /\ votesOpened' = Finalize(h.pinId, h.targetDay)
    /\ handlers' = RemoveAt(handlers, i)
    /\ last' = Step
    /\ UNCHANGED <<dbVars, timeVars, appVars, roomVars, canvasVars, pins, arbClientVars,
                   duels, rpsChoices, ballots>>

\* UPDATE pins SET time_slot = ?, assigned_day = ? WHERE id = ?
UpdateTimeAndDay(pinId, timeSlot, day) ==
    [p \in DOMAIN pins |->
        IF p = pinId THEN [assigned_day |-> day, time_slot |-> timeSlot]
        ELSE pins[p]]

\* SET_PIN_TIME with the rejection of the statement caught and ignored: the
\* handler goes on to its emit although nothing was written.
SetPinTimeIgnoringFailure(roomId, pinId, timeSlot, day) ==
    /\ Len(handlers) < MaxHandlers
    /\ pins' = IF Runs(UpdateTimeAndDayMarks)
               THEN UpdateTimeAndDay(pinId, timeSlot, day) ELSE pins
    /\ handlers' = Append(handlers,
              [op |-> "SET_PIN_TIME", pc |-> "emit", roomId |-> roomId,
               pinId |-> pinId, timeSlot |-> timeSlot, day |-> day])
    /\ last' = [op |-> "SET_PIN_TIME", roomId |-> roomId, pinId |-> pinId,
                timeSlot |-> timeSlot, day |-> day]
    /\ UNCHANGED <<dbVars, timeVars, appVars, roomVars, canvasVars, inbox, arbClientVars,
                   arbHistVars>>

\* socket.on("SET_PIN_TIME") up to the end of its await: the pin is updated,
\* or the statement rejects and the handler ends.
SetPinTime(roomId, pinId, timeSlot, day) ==
    /\ Len(handlers) < MaxHandlers
    /\ IF Runs(UpdateTimeAndDayMarks)
       THEN /\ pins' = UpdateTimeAndDay(pinId, timeSlot, day)
            /\ handlers' = Append(handlers,
                      [op |-> "SET_PIN_TIME", pc |-> "emit", roomId |-> roomId,
                       pinId |-> pinId, timeSlot |-> timeSlot, day |-> day])
            /\ unhandled' = unhandled
       ELSE /\ unhandled' = TRUE
            /\ UNCHANGED <<pins, handlers>>
    /\ last' = [op |-> "SET_PIN_TIME", roomId |-> roomId, pinId |-> pinId,
                timeSlot |-> timeSlot, day |-> day]
    /\ UNCHANGED <<pgPool, timeVars, appVars, roomVars, canvasVars, inbox, arbClientVars,
                   arbHistVars>>

\* After the await: io.to(roomId).emit("PIN_TIME_UPDATED", ...).
SetPinTimeEmit(i) ==
    /\ i \in 1..Len(handlers)
    /\ handlers[i].op = "SET_PIN_TIME"
    /\ LET h == handlers[i]
       IN  /\ HasRoom(IoTo(h.roomId))
           /\ inbox' = Emit(inbox, IoTo(h.roomId),
                            [name |-> "PIN_TIME_UPDATED", pinId |-> h.pinId,
                             timeSlot |-> h.timeSlot, day |-> h.day])
    /\ handlers' = RemoveAt(handlers, i)
    /\ last' = Step
    /\ UNCHANGED <<dbVars, timeVars, appVars, roomVars, canvasVars, pins, arbClientVars,
                   arbHistVars>>

\* App.handleVote: the client sends its ballot, closes the modal, and will
\* send VOTE_FINAL_RESULT with success: true three seconds later.
HandleVote(s, isAgree) ==
    /\ vote[s] # NoVote
    /\ Len(timers[s]) < MaxTimers
    /\ SubmitVote(RoomOf(s), vote[s].voteId, UserOf(s), isAgree)
    /\ vote' = [vote EXCEPT ![s] = NoVote]
    /\ timers' = [timers EXCEPT ![s] =
                    Append(@, [event |-> "VOTE_FINAL_RESULT", success |-> TRUE,
                               pinId |-> vote[s].pinId,
                               targetDay |-> vote[s].targetDay])]
    /\ battle' = battle

\* The three-second timer of handleVote fires.
VoteFinalTimer(s) ==
    /\ timers[s] # <<>>
    /\ Head(timers[s]).event = "VOTE_FINAL_RESULT"
    /\ VoteFinalResult(RoomOf(s), Head(timers[s]).success,
                       Head(timers[s]).pinId, Head(timers[s]).targetDay)
    /\ timers' = [timers EXCEPT ![s] = Tail(@)]
    /\ UNCHANGED <<battle, vote>>

\* A client that has joined its room sends a message of its own making; the
\* emit of useSocket adds the roomId.
Joined(s) == s \in members[RoomOf(s)]

\* The vote as the App clients run it, opened by DROP_PIN.
NextVoteApp ==
    \/ Tick
    \/ JoinRequest
    \/ \E i \in 1..MaxHandlers : JoinQuery(i)
    \/ \E i \in 1..MaxHandlers : JoinEmit(i)
    \/ \E s \in Sockets, p \in PinIds, d \in Days :
          /\ Len(votesOpened) < MaxBallotedVotes
          /\ Joined(s) /\ DropPin(RoomOf(s), p, d, UserOf(s))
    \/ \E s \in Sockets, a \in BOOLEAN : HandleVote(s, a)
    \/ \E s \in Sockets : VoteFinalTimer(s)
    \/ \E i \in 1..MaxHandlers : VoteFinalEmit(i)
    \/ \E s \in Sockets : Deliver(s)

SpecVoteApp == Init /\ [][NextVoteApp]_vars

\* What runs without anybody deciding to act: a suspended handler resumes
\* when its awaited call returns, a message sent to a connected client is
\* consumed by it, a timer that was set fires.
ServerResumes ==
    \E i \in 1..MaxHandlers :
        JoinQuery(i) \/ JoinEmit(i) \/ VoteFinalEmit(i)

ClientConsumes == \E s \in Sockets : Deliver(s)

VoteTimerFires == \E s \in Sockets : VoteFinalTimer(s)

\* The vote of the App clients with the event loops of server and clients
\* running; whether a participant ever presses a button is left open.
FairSpecVoteApp ==
    /\ SpecVoteApp
    /\ WF_vars(ServerResumes)
    /\ WF_vars(ClientConsumes)
    /\ WF_vars(VoteTimerFires)

DuelTimerFires == \E s \in Sockets : BattleResultTimer(s)

\* The duel of the App clients with the event loops of server and clients
\* running; whether a participant ever picks a choice is left open.
FairSpecDuel ==
    /\ SpecDuel
    /\ WF_vars(ServerResumes)
    /\ WF_vars(ClientConsumes)
    /\ WF_vars(DuelTimerFires)

\* Every client has consumed what was sent to it.
Prompt == \A s \in Sockets : inbox[s] = <<>>

\* No handler is suspended and no message waits: the server is idle.
Idle == handlers = <<>> /\ Prompt

\* The pin scheduler open to any message a joined client may send, with
\* requests that arrive while the server is idle.
NextVote ==
    \/ JoinRequest
    \/ \E i \in 1..MaxHandlers : JoinQuery(i)
    \/ \E i \in 1..MaxHandlers : JoinEmit(i)
    \/ \E s \in Sockets, p \in ContestedPins, d \in Days :
          /\ Len(votesOpened) < MaxBallotedVotes
          /\ Idle /\ Joined(s) /\ DropPin(RoomOf(s), p, d, UserOf(s))
    \/ \E s \in Sockets, k \in 1..MaxVotes, a \in BOOLEAN :
          /\ Idle /\ Joined(s) /\ k <= Len(votesOpened)
          /\ SubmitVote(RoomOf(s), votesOpened[k].voteId, UserOf(s), a)
          /\ UNCHANGED arbClientVars
    \/ \E s \in Sockets, ok \in BOOLEAN, p \in PinIds, d \in Days :
          /\ Idle /\ Joined(s)
          /\ VoteFinalResult(RoomOf(s), ok, p, d)
          /\ UNCHANGED arbClientVars
    \/ \E i \in 1..MaxHandlers : VoteFinalEmit(i)
    \/ \E s \in Sockets, p \in PinIds, t \in TimeSlots, d \in Days :
          Idle /\ Joined(s) /\ SetPinTime(RoomOf(s), p, t, d)
    \/ \E i \in 1..MaxHandlers : SetPinTimeEmit(i)
    \/ \E s \in Sockets : Deliver(s)

SpecVote == Init /\ [][NextVote]_vars

\* ------------------------------------------------------- the three writers
\* The handlers that write to the database and then broadcast, for requests
\* of joined clients that arrive while the server is idle: DRAW_ACTION,
\* VOTE_FINAL_RESULT and SET_PIN_TIME.
NextWrites ==
    \/ JoinRequest
    \/ \E i \in 1..MaxHandlers : JoinQuery(i)
    \/ \E i \in 1..MaxHandlers : JoinEmit(i)
    \/ Idle /\ nextId < MaxAsyncEvents /\ DrawRequest
    \/ \E i \in 1..MaxHandlers : DrawEmit(i)
    \/ \E s \in Sockets, ok \in BOOLEAN, p \in PinIds, d \in Days :
          /\ Idle /\ Joined(s)
          /\ VoteFinalResult(RoomOf(s), ok, p, d)
          /\ UNCHANGED arbClientVars
    \/ \E i \in 1..MaxHandlers : VoteFinalEmit(i)
    \/ \E s \in Sockets, p \in PinIds, t \in TimeSlots, d \in Days :
          Idle /\ Joined(s) /\ SetPinTime(RoomOf(s), p, t, d)
    \/ \E i \in 1..MaxHandlers : SetPinTimeEmit(i)
    \/ \E s \in Sockets : Deliver(s)

SpecWrites == Init /\ [][NextWrites]_vars

\* ------------------------------------------------------------- MOVE_CURSOR
\* USER_CURSOR_MOVED sent with io.to(roomId): the sender is addressed too.
CursorToAll(sock, roomId) == IoTo(roomId)

\* Who receives USER_CURSOR_MOVED: socket.to(roomId).
CursorTo(sock, roomId) == SocketTo(sock, roomId)

\* socket.on("MOVE_CURSOR"): a relay, with no await and no statement.
MoveCursor(sock, roomId, userId, center) ==
    /\ HasRoom(CursorTo(sock, roomId))
    /\ inbox' = Emit(inbox, CursorTo(sock, roomId),
                     [name |-> "USER_CURSOR_MOVED", userId |-> userId,
                      center |-> center])
    /\ last' = [op |-> "MOVE_CURSOR", roomId |-> roomId, sock |-> sock,
                userId |-> userId, center |-> center]
    /\ UNCHANGED <<dbVars, timeVars, appVars, roomVars, canvasVars, pins, handlers,
                   arbClientVars, arbHistVars>>

\* Cursors move in any room, sent by any connected client.
NextCursor ==
    \/ JoinRequest
    \/ \E i \in 1..MaxHandlers : JoinQuery(i)
    \/ \E i \in 1..MaxHandlers : JoinEmit(i)
    \/ \E s \in Sockets, r \in Rooms, c \in Centers :
          MoveCursor(s, r, UserOf(s), c)
    \/ \E s \in Sockets : Deliver(s)

SpecCursor == Init /\ [][NextCursor]_vars

\* ---------------------------------------------------------- UPDATE_PROFILE
\* INSERT INTO users (id, nickname, avatar_url) VALUES (...)
\* ON CONFLICT(id) DO UPDATE SET nickname = excluded.nickname,
\* avatar_url = excluded.avatar_url
UpsertUser(userId, nickname, avatarUrl) ==
    LET row == [id |-> userId, nickname |-> nickname, avatar_url |-> avatarUrl]
    IN  IF \E u \in users : u.id = userId
        THEN {IF u.id = userId THEN row ELSE u : u \in users}
        ELSE users \cup {row}

ProfileUpdated(userId, nickname, avatarUrl) ==
    [name |-> "PROFILE_UPDATED", userId |-> userId, nickname |-> nickname,
     avatarUrl |-> avatarUrl]

\* socket.on("UPDATE_PROFILE").  With SQLite the statement runs at once and
\* the emit follows without an await; with a PostgreSQL pool the statement is
\* handed to the pool and the handler awaits its result.
UpdateProfile(sock, roomId, userId, nickname, avatarUrl) ==
    /\ IF pgPool
       THEN /\ Len(handlers) < MaxHandlers
            /\ handlers' = Append(handlers,
                      [op |-> "UPDATE_PROFILE", pc |-> "upsert", sock |-> sock,
                       roomId |-> roomId, userId |-> userId,
                       nickname |-> nickname, avatarUrl |-> avatarUrl])
            /\ UNCHANGED <<users, inbox>>
       ELSE /\ HasRoom(IoTo(roomId))
            /\ users' = UpsertUser(userId, nickname, avatarUrl)
            /\ inbox' = Emit(inbox, IoTo(roomId),
                             ProfileUpdated(userId, nickname, avatarUrl))
            /\ UNCHANGED handlers
    /\ lastProfile' = [lastProfile EXCEPT ![userId] =
                          [nickname |-> nickname, avatarUrl |-> avatarUrl]]
    /\ last' = [op |-> "UPDATE_PROFILE", roomId |-> roomId, sock |-> sock,
                userId |-> userId, nickname |-> nickname,
                avatarUrl |-> avatarUrl]
    /\ UNCHANGED <<dbVars, timeVars, appVars, members, trips, rooms, canvasVars, pins,
                   arbClientVars, arbHistVars>>

\* await pgPool.query(...): the database runs the statement of one of the
\* calls in flight.
UpdateProfileUpsert(i) ==
    /\ i \in 1..Len(handlers)
    /\ handlers[i].op = "UPDATE_PROFILE" /\ handlers[i].pc = "upsert"
    /\ users' = UpsertUser(handlers[i].userId, handlers[i].nickname,
                           handlers[i].avatarUrl)
    /\ handlers' = Append(RemoveAt(handlers, i),
                          [handlers[i] EXCEPT !.pc = "emit"])
    /\ last' = Step
    /\ UNCHANGED <<dbVars, timeVars, appVars, members, trips, rooms, lastProfile,
                   canvasVars, pins, inbox, arbClientVars, arbHistVars>>

\* After the await: io.to(roomId).emit("PROFILE_UPDATED", ...).
UpdateProfileEmit(i) ==
    /\ i \in 1..Len(handlers)
    /\ handlers[i].op = "UPDATE_PROFILE" /\ handlers[i].pc = "emit"
    /\ LET h == handlers[i]
       IN  /\ HasRoom(IoTo(h.roomId))
           /\ inbox' = Emit(inbox, IoTo(h.roomId),
                            ProfileUpdated(h.userId, h.nickname, h.avatarUrl))
    /\ handlers' = RemoveAt(handlers, i)
    /\ last' = Step
    /\ UNCHANGED <<dbVars, timeVars, appVars, roomVars, canvasVars, pins, arbClientVars,
                   arbHistVars>>

\* ProfileModal.save of a client that has joined its room.
NextProfile ==
    \/ JoinRequest
    \/ \E i \in 1..MaxHandlers : JoinQuery(i)
    \/ \E i \in 1..MaxHandlers : JoinEmit(i)
    \/ \E s \in Sockets, n \in Nicknames, a \in AvatarUrls :
          Joined(s) /\ UpdateProfile(s, RoomOf(s), UserOf(s), n, a)
    \/ \E i \in 1..MaxHandlers : UpdateProfileUpsert(i)
    \/ \E i \in 1..MaxHandlers : UpdateProfileEmit(i)
    \/ \E s \in Sockets : Deliver(s)

SpecProfile == Init /\ [][NextProfile]_vars

\* ------------------------------------------------------------ SET_AI_STATE
\* UPDATE rooms SET ai_thinking = ? WHERE id = ?: every row with that id is
\* changed; when there is none the statement changes nothing.
UpdateAiThinking(aiThinking, roomId) ==
    {IF r.id = roomId THEN [r EXCEPT !.ai_thinking = aiThinking] ELSE r :
       r \in rooms}

\* socket.on("SET_AI_STATE") up to the end of its await: isThinking ? 1 : 0
\* is written, or the statement rejects and the handler ends.
SetAiState(roomId, isThinking) ==
    /\ Len(handlers) < MaxHandlers
    /\ IF Runs(UpdateAiThinkingMarks)
       THEN /\ rooms' = UpdateAiThinking(IF isThinking THEN 1 ELSE 0, roomId)
            /\ handlers' = Append(handlers,
                      [op |-> "SET_AI_STATE", pc |-> "emit", roomId |-> roomId,
                       isThinking |-> isThinking])
            /\ unhandled' = unhandled
       ELSE /\ unhandled' = TRUE
            /\ UNCHANGED <<rooms, handlers>>
    /\ last' = [op |-> "SET_AI_STATE", roomId |-> roomId,
                isThinking |-> isThinking]
    /\ UNCHANGED <<pgPool, timeVars, appVars, members, trips, users, lastProfile,
                   canvasVars, pins, inbox, arbClientVars, arbHistVars>>

\* After the await: io.to(roomId).emit("AI_STATE", { isThinking }).
SetAiStateEmit(i) ==
    /\ i \in 1..Len(handlers)
    /\ handlers[i].op = "SET_AI_STATE"
    /\ LET h == handlers[i]
       IN  /\ HasRoom(IoTo(h.roomId))
           /\ inbox' = Emit(inbox, IoTo(h.roomId),
                            [name |-> "AI_STATE", isThinking |-> h.isThinking])
    /\ handlers' = RemoveAt(handlers, i)
    /\ last' = Step
    /\ UNCHANGED <<dbVars, timeVars, appVars, roomVars, canvasVars, pins, arbClientVars,
                   arbHistVars>>

\* AIChat.send of a connected client: emit('SET_AI_STATE', ...) for its room.
NextAi ==
    \/ JoinRequest
    \/ \E i \in 1..MaxHandlers : JoinQuery(i)
    \/ \E i \in 1..MaxHandlers : JoinEmit(i)
    \/ \E s \in Sockets, b \in BOOLEAN : SetAiState(RoomOf(s), b)
    \/ \E i \in 1..MaxHandlers : SetAiStateEmit(i)
    \/ \E s \in Sockets : Deliver(s)

SpecAi == Init /\ [][NextAi]_vars

\* socket.on("DRAG_PIN"): the start of the drag is relayed to the others.
DragPin(sock, roomId, pinId, userId) ==
    /\ HasRoom(SocketTo(sock, roomId))
    /\ inbox' = Emit(inbox, SocketTo(sock, roomId),
                     [name |-> "PIN_DRAG_START", pinId |-> pinId,
                      userId |-> userId])
    /\ last' = [op |-> "DRAG_PIN", roomId |-> roomId, pinId |-> pinId,
                userId |-> userId]
    /\ UNCHANGED <<dbVars, timeVars, appVars, roomVars, canvasVars, pins, handlers,
                   arbClientVars, arbHistVars>>

\* The arbitration handlers open to any message a joined client may send
\* about a contested pin, with requests that arrive while the server is idle;
\* a drag may start before the start of another has reached its client.
NextArb ==
    \/ JoinRequest
    \/ \E i \in 1..MaxHandlers : JoinQuery(i)
    \/ \E i \in 1..MaxHandlers : JoinEmit(i)
    \/ \E s \in Sockets, p \in ContestedPins :
          handlers = <<>> /\ Joined(s) /\ DragPin(s, RoomOf(s), p, UserOf(s))
    \/ \E s \in Sockets, p \in ContestedPins, ab \in DuelUsers :
          Idle /\ Joined(s) /\ BattleStartTrigger(RoomOf(s), p, ab[1], ab[2])
    \/ \E s \in Sockets, c \in Choices :
          /\ Idle /\ Joined(s)
          /\ RpsChoice(RoomOf(s), "b1", UserOf(s), c)
          /\ UNCHANGED arbClientVars
    \/ \E s \in Sockets, w \in Users, p \in ContestedPins :
          /\ Idle /\ Joined(s)
          /\ BattleResult(RoomOf(s), w, p)
          /\ UNCHANGED arbClientVars
    \/ \E s \in Sockets, p \in ContestedPins, t \in TimeSlots, d \in Days :
          Idle /\ Joined(s) /\ SetPinTime(RoomOf(s), p, t, d)
    \/ \E i \in 1..MaxHandlers : SetPinTimeEmit(i)
    \/ \E s \in Sockets : Deliver(s)

SpecArb == Init /\ [][NextArb]_vars

\* Proposals for a contested pin, one after the other, and the results
\* clients send for them.
NextPropose ==
    \/ Tick
    \/ JoinRequest
    \/ \E i \in 1..MaxHandlers : JoinQuery(i)
    \/ \E i \in 1..MaxHandlers : JoinEmit(i)
    \/ \E s \in Sockets, p \in ContestedPins, d \in Days :
          Joined(s) /\ DropPin(RoomOf(s), p, d, UserOf(s))
    \/ \E s \in Sockets, ok \in BOOLEAN, k \in 1..MaxVotes :
          /\ Joined(s) /\ k <= Len(votesOpened)
          /\ VoteFinalResult(RoomOf(s), ok, votesOpened[k].pinId,
                             votesOpened[k].targetDay)
          /\ UNCHANGED arbClientVars
    \/ \E i \in 1..MaxHandlers : VoteFinalEmit(i)
    \/ \E s \in Sockets : Deliver(s)

SpecPropose == Init /\ [][NextPropose]_vars

\* ------------------------------------------------------------ properties
ActionIds(actions) == [i \in 1..Len(actions) |-> actions[i].actionId]

Quiet == handlers = <<>> /\ \A s \in Sockets : inbox[s] = <<>>

\* C1: undo monotonicity.  Two UNDO_REQUESTs of a room handled one after the
\* other with no DRAW_ACTION in between mark two distinct events undone, and
\* these are the two events inserted last among those that were not undone;
\* no further event is marked once every one of them is undone.
C1_UndoMonotonic ==
    undoRun # NoRun =>
        LET run == undoRun.run
            base == undoRun.base
            n == Len(base)
        IN  /\ Len(run) <= n
            /\ Len(run) >= 2 =>
                  /\ run[1] # run[2]
                  /\ {run[1], run[2]} = {base[n], base[n - 1]}

\* C2: the event an UNDO_REQUEST marks undone is the one inserted last among
\* the events of its room that are not undone, also when several of them
\* have the same created_at.
C2_UndoTakesLastInserted ==
    [][\A i \in 1..Len(canvas_events) :
          (~canvas_events[i].is_undone /\ canvas_events'[i].is_undone) =>
             \A j \in (i + 1)..Len(canvas_events) :
                canvas_events[j].room_id = canvas_events[i].room_id =>
                   canvas_events[j].is_undone]_vars

\* C3: an UNDO_REQUEST for a room without any event that is not undone
\* changes no event, sends no message, leaves no handler behind and raises
\* no error.
C3_UndoNothingIsNoop ==
    [][\A r \in Rooms :
          (last'.op = "UNDO_REQUEST" /\ last'.roomId = r /\ NonUndone(r) = <<>>)
          => /\ canvas_events' = canvas_events
             /\ inbox' = inbox
             /\ handlers' = handlers
             /\ unhandled' = unhandled]_vars

\* C4: an accepted DRAW_ACTION appends exactly one event, not undone, with
\* the request's room, user, type and payload, and changes no other event;
\* its handler then sends exactly one SYNC_ACTION with that event's id and the
\* request's user, type and payload to every member of the room, the author
\* included, and to nobody else.
C4_DrawAppendsAndBroadcasts ==
    [][/\ nextId' # nextId =>
            LET n == Len(canvas_events)
                h == handlers'[Len(handlers')]
                e == canvas_events'[n + 1]
            IN  /\ Len(canvas_events') = n + 1
                /\ SubSeq(canvas_events', 1, n) = canvas_events
                /\ handlers' = Append(handlers, h)
                /\ h.op = "DRAW_ACTION"
                /\ e.id = h.id /\ ~e.is_undone
                /\ \A i \in 1..n : canvas_events[i].id # e.id
                /\ e.room_id = h.roomId /\ e.user_id = h.userId
                /\ e.type = h.type /\ e.payload = JsonStringify(h.payload)
                /\ h.userId = UserOf(h.sock)
                /\ inbox' = inbox
       /\ \A i \in 1..Len(handlers) :
            (handlers[i].op = "DRAW_ACTION" /\ handlers' = RemoveAt(handlers, i))
            => LET h == handlers[i]
                   m == [name |-> "SYNC_ACTION", actionId |-> h.id,
                         userId |-> h.userId, type |-> h.type,
                         payload |-> h.payload]
               IN  /\ canvas_events' = canvas_events
                   /\ \A s \in Sockets :
                        inbox'[s] = IF s \in members[h.roomId]
                                    THEN Append(inbox[s], m) ELSE inbox[s]]_vars

\* C5: canvas convergence.  Whenever no handler is running and no message is
\* waiting, the action list of every member of a room holds exactly the
\* events of the room that are not undone, in the order of the log.
C5_Convergence ==
    Quiet =>
        \A r \in Rooms : \A s \in members[r] :
            ActionIds(remoteActions[s]) = NonUndoneIds(r)

\* A message has just been sent to socket s; NewMsg(s) is that message.
SentTo(s) == Len(inbox'[s]) > Len(inbox[s])

NewMsg(s) == inbox'[s][Len(inbox'[s])]

\* C6: duel fairness.  When a winner of the duel over a pin is announced to
\* the room and the two participants have submitted different choices, the
\* announced winner is the participant whose choice beats the other's.
C6_DuelFairness ==
    [][\A s \in Sockets :
          (SentTo(s) /\ NewMsg(s).name = "BATTLE_RESULT_SYNC" /\ duels # <<>>)
          => LET d == duels[Len(duels)]
                 a == rpsChoices[d.userA]
                 b == rpsChoices[d.userB]
             IN  (NewMsg(s).pinId = d.pinId /\ a # None /\ b # None /\ a # b)
                 => NewMsg(s).winnerId =
                       IF Beats(a, b) THEN d.userA ELSE d.userB]_vars

\* C7: when the two participants of the duel over a pin have submitted equal
\* choices, no winner is announced to the room for that pin.
C7_TieHasNoWinner ==
    [][\A s \in Sockets :
          (SentTo(s) /\ NewMsg(s).name = "BATTLE_RESULT_SYNC" /\ duels # <<>>)
          => LET d == duels[Len(duels)]
                 a == rpsChoices[d.userA]
                 b == rpsChoices[d.userB]
             IN  ~(NewMsg(s).pinId = d.pinId /\ a # None /\ a = b)]_vars

\* Ballots of a vote, as last relayed for each participant.
Agree(voteId) ==
    Cardinality({b \in ballots : b.voteId = voteId /\ b.isAgree})

Disagree(voteId) ==
    Cardinality({b \in ballots : b.voteId = voteId /\ ~b.isAgree})

\* C8: vote decision rule.  The success announced to the room for a vote that
\* was opened is true exactly when more ballots of that vote agree than
\* disagree.
C8_VoteDecisionRule ==
    [][\A s \in Sockets :
          (SentTo(s) /\ NewMsg(s).name = "VOTE_RESULT_SYNC")
          => \A k \in 1..Len(votesOpened) :
                (/\ votesOpened[k].pinId = NewMsg(s).pinId
                 /\ votesOpened[k].targetDay = NewMsg(s).targetDay)
                => (NewMsg(s).success <=>
                      Agree(votesOpened[k].voteId)
                         > Disagree(votesOpened[k].voteId))]_vars

\* C9: vote finalization effect.  A VOTE_FINAL_RESULT with success sets the
\* assigned_day of the named pin to the target day, leaves its time_slot and
\* every other pin as they were, and goes on to send the outcome to every
\* member of the room; one without success changes no pin and sends the
\* outcome to every member of the room.
C9_VoteFinalEffect ==
    [][/\ (last'.op = "VOTE_FINAL_RESULT" /\ last'.success) =>
            /\ pins' = [q \in DOMAIN pins |->
                          IF q = last'.pinId
                          THEN [assigned_day |-> last'.targetDay,
                                time_slot |-> pins[q].time_slot]
                          ELSE pins[q]]
            /\ Len(handlers') = Len(handlers) + 1
            /\ LET h == handlers'[Len(handlers')]
               IN  /\ h.op = "VOTE_FINAL_RESULT" /\ h.roomId = last'.roomId
                   /\ h.success /\ h.pinId = last'.pinId
                   /\ h.targetDay = last'.targetDay
       /\ (last'.op = "VOTE_FINAL_RESULT" /\ ~last'.success) =>
            /\ pins' = pins
            /\ \A s \in members[last'.roomId] :
                 /\ SentTo(s)
                 /\ NewMsg(s) = VoteResultSync(FALSE, last'.pinId,
                                               last'.targetDay)
       /\ \A i \in 1..Len(handlers) :
            (/\ handlers[i].op = "VOTE_FINAL_RESULT"
             /\ handlers' = RemoveAt(handlers, i))
            => /\ pins' = pins
               /\ \A s \in members[handlers[i].roomId] :
                    /\ SentTo(s)
                    /\ NewMsg(s) = VoteResultSync(TRUE, handlers[i].pinId,
                                                  handlers[i].targetDay)]_vars

\* C10: a pin changes only in a SET_PIN_TIME step, or in the finalization of a
\* vote that was opened for that pin and target day and in which more ballots
\* agree than disagree.
C10_PinsChangeOnlyByVoteOrSet ==
    [][pins' # pins =>
          \/ last'.op = "SET_PIN_TIME"
          \/ /\ last'.op = "VOTE_FINAL_RESULT"
             /\ \E k \in 1..Len(votesOpened) :
                  /\ votesOpened[k].pinId = last'.pinId
                  /\ votesOpened[k].targetDay = last'.targetDay
                  /\ Agree(votesOpened[k].voteId)
                        > Disagree(votesOpened[k].voteId)]_vars

\* A duel over pin p is active: its challenge was broadcast and no result for
\* p has been broadcast since.
DuelActive(p) ==
    \E k \in 1..Len(duels) : duels[k].pinId = p /\ ~duels[k].resolved

\* C11: at most one duel per pin.  While a duel over a pin is active, no
\* further challenge for that pin is broadcast.
C11_OneDuelPerPin ==
    [][\A p \in PinIds :
          DuelActive(p) =>
             \A s \in Sockets :
                ~(/\ SentTo(s)
                  /\ NewMsg(s).name = "BATTLE_START"
                  /\ NewMsg(s).pinId = p)]_vars

\* A vote for pin p is open: its START_VOTE was broadcast and no result for
\* its pin and day has been broadcast since.
VoteOpen(p) ==
    \E k \in 1..Len(votesOpened) :
        votesOpened[k].pinId = p /\ ~votesOpened[k].finalized

\* C12: at most one vote per pin.  While a vote for a pin is open, no further
\* START_VOTE for that pin is broadcast.
C12_OneVotePerPin ==
    [][\A p \in PinIds :
          VoteOpen(p) =>
             \A s \in Sockets :
                ~(/\ SentTo(s)
                  /\ NewMsg(s).name = "START_VOTE"
                  /\ NewMsg(s).pinId = p)]_vars

\* C13: while a duel over a pin is active, a SET_PIN_TIME leaves the
\* assigned_day and the time_slot of that pin as they were.
C13_NoSetTimeDuringDuel ==
    [][\A p \in PinRows :
          (DuelActive(p) /\ last'.op = "SET_PIN_TIME") =>
             pins'[p] = pins[p]]_vars

\* C14: vote quorum integrity.  Once the result of a vote has been broadcast,
\* no ballot for that vote is relayed to the room and the ballots of that
\* vote stay as they were.
C14_LateBallotHasNoEffect ==
    [][\A k \in 1..Len(votesOpened) :
          votesOpened[k].finalized =>
             LET v == votesOpened[k].voteId
             IN  /\ \A s \in Sockets :
                       ~(/\ SentTo(s)
                         /\ NewMsg(s).name = "VOTE_RECEIVED"
                         /\ NewMsg(s).voteId = v)
                 /\ {b \in ballots' : b.voteId = v}
                       = {b \in ballots : b.voteId = v}]_vars

\* C15: one ballot per participant, the last one.  When a participant of a
\* vote has submitted more than one ballot, the success announced for the
\* vote is true exactly when, counting for each participant the ballot
\* submitted last, more ballots agree than disagree.
C15_LastBallotCounts ==
    [][\A s \in Sockets :
          (SentTo(s) /\ NewMsg(s).name = "VOTE_RESULT_SYNC")
          => \A k \in 1..Len(votesOpened) :
                LET v == votesOpened[k].voteId
                IN  (/\ votesOpened[k].pinId = NewMsg(s).pinId
                     /\ votesOpened[k].targetDay = NewMsg(s).targetDay
                     /\ ~votesOpened[k].finalized
                     /\ \E b \in ballots : b.voteId = v /\ b.again)
                    => (NewMsg(s).success <=> Agree(v) > Disagree(v))]_vars

\* C16: every opened vote is eventually finalized.  Once START_VOTE has been
\* broadcast, the result for its pin and day is eventually broadcast, whether
\* or not any participant casts a ballot.
C16_VoteEventuallyFinalized ==
    (votesOpened # <<>>)
       ~> (\A k \in 1..Len(votesOpened) : votesOpened[k].finalized)

\* C17: every opened duel eventually ends.  Once a challenge has been
\* broadcast, its duel eventually ends, whether or not any participant submits
\* a choice.  The only end of a duel the server announces is a result for
\* its pin.
C17_DuelEventuallyEnds ==
    (duels # <<>>) ~> (\A k \in 1..Len(duels) : duels[k].resolved)

\* C18: a drag collision opens a duel.  When a DRAG_PIN for a pin arrives from
\* one participant right after a DRAG_PIN for the same pin from another, a
\* BATTLE_START for that pin naming the two is sent to every member of the
\* room.
C18_DragCollisionOpensDuel ==
    [][(/\ last.op = "DRAG_PIN" /\ last'.op = "DRAG_PIN"
        /\ last'.roomId = last.roomId /\ last'.pinId = last.pinId
        /\ last'.userId # last.userId)
       => \A s \in members[last'.roomId] :
             /\ SentTo(s)
             /\ NewMsg(s).name = "BATTLE_START"
             /\ NewMsg(s).pinId = last'.pinId
             /\ {NewMsg(s).userA, NewMsg(s).userB}
                   = {last.userId, last'.userId}]_vars

\* C19: protocol violations are never applied.  While a duel is active, a
\* choice is relayed to the room only if it comes from one of the two
\* participants of an active duel and that participant has not chosen yet.
C19_ProtocolViolationsRejected ==
    [][\A s \in Sockets :
          (/\ SentTo(s)
           /\ NewMsg(s).name = "RPS_CHOICE_RECEIVED"
           /\ \E p \in PinIds : DuelActive(p))
          => /\ \E k \in 1..Len(duels) :
                   /\ ~duels[k].resolved
                   /\ NewMsg(s).userId \in {duels[k].userA, duels[k].userB}
             /\ rpsChoices[NewMsg(s).userId] = None]_vars

\* ------------------------------------------------- any connection, any room
\* A connected socket sends DRAW_ACTION naming any room: the handler reads
\* roomId from the message and never looks at socket.rooms.
NextOpen ==
    \/ Tick
    \/ JoinRequest
    \/ \E i \in 1..MaxHandlers : JoinQuery(i)
    \/ \E i \in 1..MaxHandlers : JoinEmit(i)
    \/ \E s \in Sockets, r \in Rooms :
          /\ nextId < MaxAsyncEvents
          /\ DrawInsert(s, r, UserOf(s), StrokeOf(s))
    \/ \E i \in 1..MaxHandlers : DrawEmit(i)
    \/ \E s \in Sockets : Deliver(s)

SpecOpen == Init /\ [][NextOpen]_vars

\* C20: a client action for a room is persisted and broadcast only if the
\* sending connection is a member of that room: an event row is inserted for
\* a room only by a socket that joined it, and SYNC_ACTION reaches the room's
\* members only for an action whose sender joined it.
C20_OnlyMembersAct ==
    [][/\ Len(canvas_events') > Len(canvas_events)
          => LET h == handlers'[Len(handlers')]
             IN  h.sock \in members[h.roomId]
       /\ \A s \in Sockets :
             (SentTo(s) /\ NewMsg(s).name = "SYNC_ACTION")
             => \E i \in 1..Len(handlers) :
                   /\ handlers[i].op = "DRAW_ACTION"
                   /\ handlers[i].id = NewMsg(s).actionId
                   /\ handlers[i].sock \in members[handlers[i].roomId]]_vars

CanvasBroadcasts == {"SYNC_ACTION", "UNDO_EXECUTE"}

\* C21: broadcast order equals commit order.  Whenever SYNC_ACTION or
\* UNDO_EXECUTE is sent to a member, it announces the oldest mutation of its
\* room that is committed to the log and not yet broadcast: no mutation of
\* the same room committed earlier is still waiting for its broadcast.
C21_BroadcastInCommitOrder ==
    [][\A s \in Sockets :
          (SentTo(s) /\ NewMsg(s).name \in CanvasBroadcasts)
          => \E k \in 1..Len(committed) :
                /\ committed[k].name = NewMsg(s).name
                /\ committed[k].actionId = NewMsg(s).actionId
                /\ \A j \in 1..(k - 1) :
                      committed[j].roomId # committed[k].roomId]_vars

\* C21 witness: a drawing and an undo of one room are both committed and
\* neither is broadcast yet, with a member there to receive them.
C21_TwoCommitsPending ==
    /\ Len(committed) = 2
    /\ committed[1].roomId = committed[2].roomId
    /\ {committed[1].name, committed[2].name} = CanvasBroadcasts
    /\ members[committed[1].roomId] # {}

\* C22: a failed write is never acknowledged.  Every SYNC_ACTION sent to a
\* member announces an event that is in canvas_events, and no SYNC_ACTION,
\* PIN_TIME_UPDATED or successful VOTE_RESULT_SYNC is sent when the statement
\* of its handler is one the database rejects.
C22_FailedWriteNotAcknowledged ==
    \A s \in Sockets : \A k \in 1..Len(inbox[s]) :
        LET m == inbox[s][k]
        IN  /\ m.name = "SYNC_ACTION"
                 => /\ Runs(InsertCanvasEvent)
                    /\ \E e \in 1..Len(canvas_events) :
                          canvas_events[e].id = m.actionId
            /\ m.name = "PIN_TIME_UPDATED" => Runs(UpdateTimeAndDayMarks)
            /\ (m.name = "VOTE_RESULT_SYNC" /\ m.success)
                 => Runs(UpdateAssignedDayMarks)

\* C22 witness: on a database that rejected the insert of a DRAW_ACTION, the
\* statement of a SET_PIN_TIME sent to a room with members has just been
\* rejected too.
C22_WriteFailed ==
    /\ ~Runs(InsertCanvasEvent) /\ nextId > 0
    /\ ~Runs(UpdateTimeAndDayMarks) /\ last.op = "SET_PIN_TIME"
    /\ unhandled
    /\ members[last.roomId] # {}

\* A step in which the statement of a DRAW_ACTION, SET_PIN_TIME or successful
\* VOTE_FINAL_RESULT is rejected.
WriteFails ==
    \/ nextId' # nextId /\ canvas_events' = canvas_events
    \/ last'.op = "SET_PIN_TIME" /\ handlers' = handlers
    \/ last'.op = "VOTE_FINAL_RESULT" /\ last'.success /\ handlers' = handlers

\* C23: a failed write is surfaced to the originating client and is not
\* fatal.  In the step in which the write fails a notification is sent to a
\* connection, and the handler does not end with a rejection nobody handles.
C23_FailureSurfaced ==
    [][WriteFails => (\E s \in Sockets : SentTo(s)) /\ ~unhandled']_vars

\* The messages sent to socket s in this step.
SentNow(s) ==
    {inbox'[s][k] : k \in (Len(inbox[s]) + 1)..Len(inbox'[s])}

\* The join_room handler at position i of handlers ends in this step.
JoinEnds(i) ==
    /\ i \in 1..Len(handlers)
    /\ handlers[i].op = "join_room"
    /\ handlers' = RemoveAt(handlers, i)

\* C24: join_room(R) adds the connection to R's member set and sends
\* SYNC_TRIPS to the joining connection only, with exactly the trips of R.
\* When a join_room handler ends, its socket is a member of R and has been
\* sent SYNC_TRIPS holding the trips whose room is R, and no other socket
\* has been sent SYNC_TRIPS.
C24_JoinSendsSnapshot ==
    [][\A i \in 1..MaxHandlers :
          JoinEnds(i)
          => /\ handlers[i].sock \in members'[handlers[i].roomId]
             /\ \E m \in SentNow(handlers[i].sock) :
                   m.name = "SYNC_TRIPS" /\ m.trips = TripsOf(handlers[i].roomId)
             /\ \A s \in Sockets \ {handlers[i].sock} :
                   \A m \in SentNow(s) : m.name # "SYNC_TRIPS"]_vars

\* C25: the presence notification of a join goes to the other members only.
\* USER_JOINED is never sent to the connection it names, and the connection
\* it is sent to shares a room with the one it names.
C25_UserJoinedToOthersOnly ==
    [][\A s \in Sockets : \A m \in SentNow(s) :
          m.name = "USER_JOINED"
          => /\ m.userId # s
             /\ \E r \in Rooms : {s, m.userId} \subseteq members[r]]_vars

\* C26: MOVE_CURSOR is relayed as USER_CURSOR_MOVED to every member of the
\* room except the sending connection, which receives nothing, and no table
\* changes.
C26_CursorRelayedToOthers ==
    [][last'.op = "MOVE_CURSOR"
       => /\ \A s \in Sockets :
                SentNow(s) =
                   IF s \in members[last'.roomId] \ {last'.sock}
                   THEN {[name |-> "USER_CURSOR_MOVED",
                          userId |-> last'.userId, center |-> last'.center]}
                   ELSE {}
          /\ inbox'[last'.sock] = inbox[last'.sock]
          /\ UNCHANGED <<trips, users, rooms, canvas_events, pins>>]_vars

\* C26 witness: a member of a room with another member has moved its cursor.
C26_CursorMovedAmongMembers ==
    /\ last.op = "MOVE_CURSOR"
    /\ last.sock \in members[last.roomId]
    /\ members[last.roomId] \ {last.sock} # {}

\* No UPDATE_PROFILE for user id u is waiting for its statement to run.
ProfileSettled(u) ==
    \A i \in 1..Len(handlers) :
        ~(/\ handlers[i].op = "UPDATE_PROFILE"
          /\ handlers[i].pc = "upsert"
          /\ handlers[i].userId = u)

\* C27: UPDATE_PROFILE is an upsert followed by a room-wide broadcast.  Once
\* every UPDATE_PROFILE received for a user id has run its statement, table
\* users holds exactly one row for that id, with the nickname and avatarUrl
\* of the last call; and PROFILE_UPDATED, when sent, goes to every member of
\* the room, the sender included.
C27_ProfileIsLastCall ==
    /\ \A u \in Users :
          (lastProfile[u] # NoProfile /\ ProfileSettled(u))
          => {r \in users : r.id = u} =
                {[id |-> u, nickname |-> lastProfile[u].nickname,
                  avatar_url |-> lastProfile[u].avatarUrl]}
    /\ last.op = "UPDATE_PROFILE" /\ ~pgPool
          => /\ last.sock \in members[last.roomId]
             /\ \A s \in members[last.roomId] :
                   /\ inbox[s] # <<>>
                   /\ inbox[s][Len(inbox[s])] =
                         ProfileUpdated(last.userId, last.nickname,
                                        last.avatarUrl)

\* C28: direct schedule set.  A SET_PIN_TIME for a pin with no duel and no
\* vote open leaves the row of that pin with the time slot and day of the
\* message and every other row as it was, and its handler goes on to
\* broadcast PIN_TIME_UPDATED with those values, which reaches every member
\* of the room.
C28_SetPinTimeSetsAndBroadcasts ==
    [][/\ (/\ last'.op = "SET_PIN_TIME"
           /\ ~DuelActive(last'.pinId) /\ ~VoteOpen(last'.pinId))
          => /\ \A p \in PinRows :
                   pins'[p] = IF p = last'.pinId
                              THEN [assigned_day |-> last'.day,
                                    time_slot |-> last'.timeSlot]
                              ELSE pins[p]
             /\ handlers' = Append(handlers,
                   [op |-> "SET_PIN_TIME", pc |-> "emit",
                    roomId |-> last'.roomId, pinId |-> last'.pinId,
                    timeSlot |-> last'.timeSlot, day |-> last'.day])
       /\ \A i \in 1..Len(handlers) :
             (handlers[i].op = "SET_PIN_TIME"
                /\ handlers' = RemoveAt(handlers, i))
             => \A s \in members[handlers[i].roomId] :
                   [name |-> "PIN_TIME_UPDATED", pinId |-> handlers[i].pinId,
                    timeSlot |-> handlers[i].timeSlot,
                    day |-> handlers[i].day] \in SentNow(s)]_vars

\* C29: implicit room creation.  After SET_AI_STATE(R, isThinking), table
\* rooms has a row for R whose ai_thinking is 1 when isThinking is true and
\* 0 when it is false, also when R had no row before.
C29_AiStateStoredForNewRoom ==
    [][last'.op = "SET_AI_STATE"
       => \E r \in rooms' :
             /\ r.id = last'.roomId
             /\ r.ai_thinking = IF last'.isThinking THEN 1 ELSE 0]_vars

\* C30: replay idempotence.  Whatever a client's canvas held, a redraw leaves
\* on it exactly what its action list draws on a cleared canvas, and
\* redrawing once more leaves the canvas as it is: the result depends only
\* on the action list.
C30_ReplayIdempotent ==
    [][last'.op = "resize"
       => LET s == last'.sock
          IN  /\ canvas'[s] = ForEachDrawAction(ClearRect, remoteActions[s])
              /\ Redraw(canvas'[s], remoteActions'[s]) = canvas'[s]]_vars

\* C30 witness: a client whose list holds a line and an erase has redrawn
\* its canvas.
C30_Redrawn ==
    /\ last.op = "resize"
    /\ {remoteActions[last.sock][k].type :
           k \in 1..Len(remoteActions[last.sock])} = {"line", "erase"}

\* C31: undo is atomic under interleaving.  Each event is marked undone by at
\* most one request: when an UNDO_REQUEST handler runs its update and goes on
\* to broadcast UNDO_EXECUTE for an event, that event was not undone before.
C31_UndoneByOneRequest ==
    [][(/\ Len(committed') > Len(committed)
        /\ committed'[Len(committed')].name = "UNDO_EXECUTE")
       => \A k \in 1..Len(canvas_events) :
             canvas_events[k].id = committed'[Len(committed')].actionId
             => ~canvas_events[k].is_undone]_vars

\* C32: no premature finalization.  A vote is finalized only when its
\* deadline has passed or as many ballots have been cast for it as the room
\* had members when it was opened.
C32_NoPrematureFinalization ==
    [][\A k \in 1..Len(votesOpened) :
          (~votesOpened[k].finalized /\ votesOpened'[k].finalized)
          => \/ clock >= votesOpened[k].voteId + VoteWindow
             \/ Cardinality({b \in ballots : b.voteId = votesOpened[k].voteId})
                   >= votesOpened[k].quorum]_vars

\* C33: each opened vote is finalized at most once.  VOTE_RESULT_SYNC is not
\* broadcast for the pin and day of a vote whose result has already been
\* broadcast.
C33_FinalizedAtMostOnce ==
    [][\A s \in Sockets :
          (SentTo(s) /\ NewMsg(s).name = "VOTE_RESULT_SYNC")
          => \A k \in 1..Len(votesOpened) :
                (/\ votesOpened[k].pinId = NewMsg(s).pinId
                 /\ votesOpened[k].targetDay = NewMsg(s).targetDay)
                => ~votesOpened[k].finalized]_vars

\* C34: end-to-end undo.  When a client presses the undo button in a room
\* whose log holds a non-undone event, the handler of its UNDO_REQUEST goes on
\* to mark a non-undone event of that room undone and to broadcast
\* UNDO_EXECUTE for it.
C34_UndoButtonUndoes ==
    [][\A r \in Rooms :
          (/\ last'.op = "UNDO_REQUEST"
           /\ last'.roomId = UseSocketEmit(Obj([roomId |-> r]), r)
           /\ NonUndone(r) # <<>>)
          => /\ Len(handlers') = Len(handlers) + 1
             /\ LET h == handlers'[Len(handlers')]
                IN  /\ h.op = "UNDO_REQUEST" /\ h.roomId = r
                    /\ \E k \in 1..Len(NonUndoneIds(r)) :
                          NonUndoneIds(r)[k] = h.lastEvent]_vars

\* C35: pins are fetched per trip.  When the current trip of a client becomes
\* T and the App sends GET_PINS through useSocket's emit, the handler goes on
\* to answer that client with the pins whose trip_id is T.
C35_GetPinsAnswered ==
    [][\A s \in Sockets, tripId \in TripIds :
          (/\ last'.op = "GET_PINS"
           /\ last'.sock = s
           /\ last'.tripId = UseSocketEmit(Str(tripId), RoomOf(s)))
          => /\ Len(handlers') = Len(handlers) + 1
             /\ LET h == handlers'[Len(handlers')]
                IN  /\ h.op = "GET_PINS" /\ h.sock = s
                    /\ h.pins = PinsOfTrip(tripId)]_vars

\* ------------------------------------------------- connection of the App
\* The components that call useSocket(roomId) when the App is first
\* rendered.  Each call runs the effect of the hook once, and each run adds a
\* 'connect' listener to the shared socket; the cleanup removes none.
UseSocketCallers ==
    {"App", "DrawingCanvas", "PlannerBoard", "AIChatPanel", "ProfileModal"}

\* The shared socket connects: every 'connect' listener runs
\* setConnected(true) and socket.emit('join_room', roomId).
Connect(s) ==
    /\ ~connected[s]
    /\ connected' = [connected EXCEPT ![s] = TRUE]
    /\ joinsPending' = [joinsPending EXCEPT
                           ![s] = @ + Cardinality(UseSocketCallers)]
    /\ last' = [op |-> "connect", roomId |-> RoomOf(s), sock |-> s]
    /\ UNCHANGED <<dbVars, timeVars, appTrips, raced, roomVars, canvasVars,
                   pins, handlers, inbox, arbClientVars, arbHistVars>>

\* socket.on("join_room") for one of the join_room messages of a client:
\* socket.join(roomId) and the call of query.
JoinArrives(s) ==
    /\ joinsPending[s] > 0
    /\ Len(handlers) < MaxHandlers
    /\ joinsPending' = [joinsPending EXCEPT ![s] = @ - 1]
    /\ members' = [members EXCEPT ![RoomOf(s)] = @ \cup {s}]
    /\ handlers' = Append(handlers,
                      [op |-> "join_room", pc |-> AwaitQuery, sock |-> s,
                       roomId |-> RoomOf(s), trips |-> TripsOf(RoomOf(s))])
    /\ last' = Step
    /\ UNCHANGED <<dbVars, timeVars, connected, appTrips, raced, trips, users,
                   rooms, lastProfile, canvasVars, pins, inbox, arbClientVars,
                   arbHistVars>>

\* The connection of a client closes after its joins are done: socket.io
\* takes the socket out of its rooms, the 'disconnect' listeners run
\* setConnected(false), and what was on its way to the client is lost.
Disconnect(s) ==
    /\ connected[s]
    /\ joinsPending[s] = 0
    /\ \A i \in 1..Len(handlers) : handlers[i].sock # s
    /\ connected' = [connected EXCEPT ![s] = FALSE]
    /\ members' = [r \in Rooms |-> members[r] \ {s}]
    /\ inbox' = [inbox EXCEPT ![s] = <<>>]
    /\ last' = Step
    /\ UNCHANGED <<dbVars, timeVars, joinsPending, appTrips, raced, trips,
                   users, rooms, lastProfile, canvasVars, pins, handlers,
                   arbClientVars, arbHistVars>>

\* Clients connect, join and reconnect.
NextConn ==
    \/ \E s \in Sockets : Connect(s)
    \/ \E s \in Sockets : JoinArrives(s)
    \/ \E i \in 1..MaxHandlers : JoinQuery(i)
    \/ \E i \in 1..MaxHandlers : JoinEmit(i)
    \/ \E s \in Sockets : Deliver(s)
    \/ \E s \in Sockets : Disconnect(s)

SpecConn == Init /\ [][NextConn]_vars

\* C36: one join per connection.  A connect event of a client's shared
\* socket sends exactly one join_room to the server.
C36_OneJoinPerConnect ==
    [][\A s \in Sockets :
          (~connected[s] /\ connected'[s])
          => joinsPending'[s] = joinsPending[s] + 1]_vars

\* ------------------------------------------------------------ CREATE_TRIP
\* INSERT INTO trips (id, room_id, title) VALUES (?, ?, ?)
InsertTripRow(id, roomId, title) ==
    trips \cup {[id |-> id, room_id |-> roomId, title |-> title,
                 rowid |-> Cardinality(trips) + 1]}

\* socket.on("CREATE_TRIP") up to its await: the id is made from the clock
\* and the row is inserted; the handler ends with a rejection when the
\* statement is rejected or the id is the primary key of a row.
CreateTrip(sock, roomId, title) ==
    LET id == TripIdAt(clock)
    IN  /\ IF Runs(InsertTrip) /\ \A t \in trips : t.id # id
           THEN /\ Len(handlers) < MaxHandlers
                /\ trips' = InsertTripRow(id, roomId, title)
                /\ handlers' = Append(handlers,
                                  [op |-> "CREATE_TRIP", pc |-> "emit",
                                   sock |-> sock, roomId |-> roomId,
                                   id |-> id, title |-> title])
                /\ unhandled' = unhandled
           ELSE /\ unhandled' = TRUE
                /\ UNCHANGED <<trips, handlers>>
        /\ raced' = raced \cup
              {[sock |-> handlers[i].sock, roomId |-> roomId, id |-> id] :
                 i \in {j \in 1..Len(handlers) :
                          /\ handlers[j].op = "join_room"
                          /\ handlers[j].roomId = roomId}}
        /\ last' = [op |-> "CREATE_TRIP", roomId |-> roomId]
        /\ UNCHANGED <<pgPool, timeVars, connected, joinsPending, appTrips,
                       members, users, rooms, lastProfile, canvasVars, pins,
                       inbox, arbClientVars, arbHistVars>>

\* io.to(roomId).emit("TRIP_CREATED", { id, roomId, title })
CreateTripEmit(i) ==
    /\ i \in 1..Len(handlers)
    /\ handlers[i].op = "CREATE_TRIP" /\ handlers[i].pc = "emit"
    /\ \A s \in IoTo(handlers[i].roomId) : Len(inbox[s]) < MaxInbox
    /\ inbox' = Emit(inbox, IoTo(handlers[i].roomId),
                     [name |-> "TRIP_CREATED", id |-> handlers[i].id,
                      roomId |-> handlers[i].roomId,
                      title |-> handlers[i].title])
    /\ handlers' = RemoveAt(handlers, i)
    /\ last' = Step
    /\ UNCHANGED <<dbVars, timeVars, appVars, roomVars, canvasVars, pins,
                   arbClientVars, arbHistVars>>

\* PlannerBoard.createTrip: emit('CREATE_TRIP', { title }).
CreateTripRequest ==
    \E s \in Sockets, title \in Titles :
        LET message == UseSocketEmit(Obj([title |-> title]), RoomOf(s))
        IN  CreateTrip(s, message.value.roomId, message.value.title)

ResumeTripAt(i) ==
    \/ JoinQuery(i)
    \/ JoinEmit(i)
    \/ CreateTripEmit(i)

\* Clients join and create trips; continuations run as the event loop
\* schedules them (see Microtask).
NextTrips ==
    \/ Tick
    \/ JoinRequest
    \/ CreateTripRequest
    \/ IF pgPool THEN \E i \in 1..MaxHandlers : ResumeTripAt(i)
       ELSE ResumeTripAt(1)
    \/ \E s \in Sockets : Deliver(s)

SpecTrips == Init /\ [][NextTrips]_vars

\* Number of times id occurs in a trip list.
Occurrences(id, list) == Cardinality({k \in 1..Len(list) : list[k] = id})

\* C37: trip list convergence on join.  When a CREATE_TRIP for a room was
\* handled while a join_room handler for that room was awaiting its query,
\* then once no handler is suspended and every message is delivered the trip
\* list of the joiner holds the created trip exactly once and holds exactly
\* the trips stored for the room.
C37_TripListConverges ==
    (handlers = <<>> /\ \A s \in Sockets : inbox[s] = <<>>)
    => \A x \in raced :
          /\ Occurrences(x.id, appTrips[x.sock]) = 1
          /\ {appTrips[x.sock][k] : k \in 1..Len(appTrips[x.sock])}
                = {t.id : t \in TripsOf(x.roomId)}

\* ------------------------------------------------------------ two rooms
\* Clients join either room, or both, and draw, undo, move their cursor and
\* drop pins there.  DRAW_ACTION and UNDO_REQUEST arrive while other handlers
\* are suspended, the other requests while the server is idle.
NextRooms ==
    \/ \E s \in Sockets, r \in Rooms : Idle /\ JoinRoom(s, r)
    \/ \E i \in 1..MaxHandlers : JoinQuery(i)
    \/ \E i \in 1..MaxHandlers : JoinEmit(i)
    \/ \E s \in Sockets, r \in Rooms :
          /\ Prompt /\ nextId < MaxAsyncEvents /\ s \in members[r]
          /\ DrawInsert(s, r, UserOf(s), StrokeOf(s))
    \/ \E i \in 1..MaxHandlers : DrawEmit(i)
    \/ Prompt /\ UndoRequest
    \/ \E i \in 1..MaxHandlers : UndoUpdate(i)
    \/ \E i \in 1..MaxHandlers : UndoEmit(i)
    \/ \E s \in Sockets, r \in Rooms :
          /\ Idle /\ s \in members[r]
          /\ MoveCursor(s, r, UserOf(s), "c1")
    \/ \E s \in Sockets, r \in Rooms :
          /\ Idle /\ s \in members[r]
          /\ DropPin(r, "p1", 1, UserOf(s))
    \/ \E s \in Sockets : Deliver(s)

SpecRooms == Init /\ [][NextRooms]_vars

\* The step is a step of DRAW_ACTION, UNDO_REQUEST, MOVE_CURSOR or DROP_PIN
\* on room r.
OnRoom(r) ==
    \/ \E s \in Sockets : DrawInsert(s, r, UserOf(s), StrokeOf(s))
    \/ UndoNone(r) \/ UndoSelect(r) \/ UndoReject(r)
    \/ \E i \in 1..Len(handlers) :
          /\ handlers[i].roomId = r
          /\ (DrawEmit(i) \/ UndoUpdate(i) \/ UndoEmit(i))
    \/ \E s \in Sockets : MoveCursor(s, r, UserOf(s), "c1")
    \/ \E s \in Sockets : DropPin(r, "p1", 1, UserOf(s))

\* C38: room isolation.  A step of an operation on room r sends messages
\* only to members of r, and leaves every row of every other room in the
\* canvas log as it was: none is added, changed or marked undone.
C38_RoomIsolation ==
    [][\A r \in Rooms :
          OnRoom(r)
          => /\ \A s \in Sockets : SentTo(s) => s \in members[r]
             /\ Len(canvas_events') >= Len(canvas_events)
             /\ \A k \in 1..Len(canvas_events') :
                   canvas_events'[k].room_id # r
                   => /\ k <= Len(canvas_events)
                      /\ canvas_events'[k] = canvas_events[k]]_vars

\* C38 (witness): both rooms have members of their own and events in their
\* logs, and an event of r1 has been undone while one of r2 has not.
C38_UndoneBesideOtherRoom ==
    /\ members["r1"] \ members["r2"] # {}
    /\ members["r2"] \ members["r1"] # {}
    /\ \E k, j \in 1..Len(canvas_events) :
          /\ canvas_events[k].room_id = "r1" /\ canvas_events[k].is_undone
          /\ canvas_events[j].room_id = "r2" /\ ~canvas_events[j].is_undone

====
